---- MODULE Spec2Model ----
(***************************************************************************)
(* A model of the VitruviAI backend (backend-node): the serverless         *)
(* connection hook, the document store operations of db/mongodb.ts, the    *)
(* auth pre-handlers and the project / portfolio route handlers.           *)
(*                                                                         *)
(* Every request handler is an async function: between two awaits it runs  *)
(* atomically on the single JavaScript thread, and at every await other    *)
(* requests may run.  A handler is therefore modelled as one action per    *)
(* awaited store / adapter call, with the request's local variables kept   *)
(* in req[r].                                                              *)
(***************************************************************************)
EXTENDS Integers, Sequences, FiniteSets, TLC

VARIABLES
    \* ---- server.ts / mongodb.ts connection state
    db,                \* mongodb.ts `db !== null`
    cachedDb,          \* mongodb.ts `cachedClient && cachedDb`
    connectionPromise, \* server.ts connectionPromise: 0 = null, else the id of the promise
    settled,           \* ids of the promises that have settled
    hook,              \* per request: position in the onRequest hook
    inflight,          \* connectMongoDB calls that have started and not yet returned
    attempts,          \* connectMongoDB calls started so far (also the last promise id)
    \* ---- the document store
    users,             \* collection `users`: id -> subscription
    projects,          \* collection `projects`: id -> document or NoProject
    history,           \* collection `analyses_history`, in insertion order
    clock,             \* the wall clock, as read by `new Date()`
    userEmails,        \* collection `users`: the email of each document, in insertion order
    notifications,     \* collection `notifications`: id -> owner and read flag
    \* ---- requests in progress
    req,               \* per request slot: the handler's position and locals
    started,           \* requests started so far
    faults,            \* store operations that have failed so far
    succ               \* per user: analyze requests answered with the success response

connVars == <<db, cachedDb, connectionPromise, settled, hook, inflight, attempts>>
storeVars == <<users, projects, history, clock>>
reqVars == <<req, started, faults, succ>>
vars == <<db, cachedDb, connectionPromise, settled, hook, inflight, attempts,
          users, projects, history, clock, userEmails, notifications,
          req, started, faults, succ>>

(***************************************************************************)
(* Bounds of the model.                                                    *)
(***************************************************************************)
MaxAttempts == 3     \* connectMongoDB calls explored
MaxRequests == 2     \* requests explored per behaviour
MaxFaults == 1       \* failing store operations explored per behaviour

Req == {1, 2}        \* request slots: requests that may be in progress together
HookReq == {"h1", "h2", "h3"}

(***************************************************************************)
(* server.ts: the onRequest hook, and mongodb.ts connectMongoDB.           *)
(***************************************************************************)

\* config.MONGODB_URI is set in every deployment that reaches the store; the
\* unconfigured case returns from connectMongoDB before its first await.
ConnInit ==
    /\ db = FALSE
    /\ cachedDb = FALSE
    /\ connectionPromise = 0
    /\ settled = {}
    /\ hook = [h \in HookReq |-> [pc |-> "idle", awaits |-> 0]]
    /\ inflight = 0
    /\ attempts = 0

isMongoConnected == db

\* server.ts line 59, `if (!connectionPromise)`: the mutant starts an attempt whenever
\* the store is not connected.
NoPendingAttemptAlways == TRUE
NoPendingAttempt == connectionPromise = 0

\* onRequest with the store connected: the hook returns at once.
HookConnected(h) ==
    /\ hook[h].pc = "idle"
    /\ isMongoConnected
    /\ hook' = [hook EXCEPT ![h] = [pc |-> "handler", awaits |-> 0]]
    /\ UNCHANGED <<db, cachedDb, connectionPromise, settled, inflight, attempts>>
    /\ UNCHANGED <<storeVars, reqVars, userEmails, notifications>>

\* onRequest, store not connected, no promise: connectMongoDB() is called, runs to
\* its first await (newClient.connect()), and the hook awaits the new promise.
HookStartsAttempt(h) ==
    /\ hook[h].pc = "idle"
    /\ ~isMongoConnected
    /\ NoPendingAttempt
    /\ attempts < MaxAttempts
    /\ attempts' = attempts + 1
    /\ inflight' = inflight + 1
    /\ connectionPromise' = attempts + 1
    /\ hook' = [hook EXCEPT ![h] = [pc |-> "await", awaits |-> attempts + 1]]
    /\ UNCHANGED <<db, cachedDb, settled>>
    /\ UNCHANGED <<storeVars, reqVars, userEmails, notifications>>

\* onRequest, store not connected, a promise is there: await that promise.
HookJoinsAttempt(h) ==
    /\ hook[h].pc = "idle"
    /\ ~isMongoConnected
    /\ ~NoPendingAttempt
    /\ hook' = [hook EXCEPT ![h] = [pc |-> "await", awaits |-> connectionPromise]]
    /\ UNCHANGED <<db, cachedDb, connectionPromise, settled, inflight, attempts>>
    /\ UNCHANGED <<storeVars, reqVars, userEmails, notifications>>

\* The mutant's callback leaves the marker as it is.
FinallyKeepsMarker(id, connected) == connectionPromise

\* The .finally callback of server.ts lines 60-62, run in the microtask that
\* follows connectMongoDB's return.
Finally(id, connected) ==
    IF connected THEN connectionPromise ELSE 0

\* connectMongoDB lines 55-65: connect and ping succeed.
ConnectSucceeds ==
    /\ inflight > 0
    /\ \E id \in 1..attempts :
          /\ id \notin settled
          /\ db' = TRUE
          /\ cachedDb' = TRUE
          /\ inflight' = inflight - 1
          /\ settled' = settled \cup {id}
          /\ connectionPromise' = Finally(id, TRUE)
    /\ UNCHANGED <<hook, attempts>>
    /\ UNCHANGED <<storeVars, reqVars, userEmails, notifications>>

\* connectMongoDB lines 66-72: connect or ping throws; everything is reset.
ConnectFails ==
    /\ inflight > 0
    /\ \E id \in 1..attempts :
          /\ id \notin settled
          /\ db' = FALSE
          /\ cachedDb' = FALSE
          /\ inflight' = inflight - 1
          /\ settled' = settled \cup {id}
          /\ connectionPromise' = Finally(id, FALSE)
    /\ UNCHANGED <<hook, attempts>>
    /\ UNCHANGED <<storeVars, reqVars, userEmails, notifications>>

\* `await connectionPromise` resumes once the awaited promise has settled.
HookResumes(h) ==
    /\ hook[h].pc = "await"
    /\ hook[h].awaits \in settled
    /\ hook' = [hook EXCEPT ![h] = [pc |-> "handler", awaits |-> 0]]
    /\ UNCHANGED <<db, cachedDb, connectionPromise, settled, inflight, attempts>>
    /\ UNCHANGED <<storeVars, reqVars, userEmails, notifications>>

\* The request is answered; the slot is free for the next request.
HookRequestEnds(h) ==
    /\ hook[h].pc = "handler"
    /\ hook' = [hook EXCEPT ![h] = [pc |-> "idle", awaits |-> 0]]
    /\ UNCHANGED <<db, cachedDb, connectionPromise, settled, inflight, attempts>>
    /\ UNCHANGED <<storeVars, reqVars, userEmails, notifications>>

ConnNext ==
    \/ \E h \in HookReq : HookConnected(h)
    \/ \E h \in HookReq : HookStartsAttempt(h)
    \/ \E h \in HookReq : HookJoinsAttempt(h)
    \/ ConnectSucceeds
    \/ ConnectFails
    \/ \E h \in HookReq : HookResumes(h)
    \/ \E h \in HookReq : HookRequestEnds(h)

(***************************************************************************)
(* Values.  An optional value (null / undefined / an optional field) is a  *)
(* sequence of length 0 or 1.                                              *)
(***************************************************************************)
None == <<>>
Some(x) == <<x>>
IsSome(o) == o # <<>>
Val(o) == o[1]

\* JavaScript `x || 0` on a field that is a number or missing.
OrZero(o) == IF IsSome(o) /\ Val(o) # 0 THEN Val(o) ELSE 0

\* Math.round(n / d) for d > 0: the nearest integer, halves towards +infinity.
RoundDiv(n, d) == (2 * n + d) \div (2 * d)

User == {"u1", "u2"}
PId == {1, 2}                                \* the projects that exist at the start
NewPId == {2 + k : k \in 1..MaxRequests}     \* the ids insertOne hands out, in order
AllPId == PId \cup NewPId
Names == {"a", "b"}

Min(a, b) == IF a < b THEN a ELSE b
Take(s, n) == SubSeq(s, 1, Min(n, Len(s)))

\* Number((n / d).toFixed(k)) in units of 10^-k, for d > 0: n is the numerator scaled
\* by 10^k; toFixed rounds to nearest, halves away from zero.
ToFixed(n, d) ==
    IF n >= 0 THEN (2 * n + d) \div (2 * d) ELSE 0 - ((2 * (0 - n) + d) \div (2 * d))

\* Math.ceil(n / d) for d > 0.
CeilDiv(n, d) == 0 - ((0 - n) \div d)

\* createUser's subscription for a new account (`scans_limit: 3, max_projects: 1`) and
\* the Pro plan of PLAN_DETAILS / updateSubscription.
FreeScansLimit == 3
FreeMaxProjects == 1
ProScansLimit == -1
ProMaxProjects == 10

FreeSubscription(used) ==
    [plan |-> "free", scans_used |-> used, scans_limit |-> FreeScansLimit,
     max_projects |-> FreeMaxProjects]
ProSubscription(used) ==
    [plan |-> "pro", scans_used |-> used, scans_limit |-> ProScansLimit,
     max_projects |-> ProMaxProjects]

(***************************************************************************)
(* ai.service.ts: the adapter's raw JSON and the normalizer.               *)
(***************************************************************************)

\* Raw adapter answers explored: objects as the prompt asks for them, with sub-objects
\* and fields present or missing.
RawResults ==
    { [progressPercentage |-> Some(10), delaysFlagged |-> Some(1),
       manpower |-> Some([total |-> Some(5), safetyScore |-> Some(80)]),
       financials |-> Some([budgetTotal |-> Some(1000), budgetSpent |-> Some(45),
                            costOverrun |-> Some(12)])],
      [progressPercentage |-> Some(30), delaysFlagged |-> None,
       manpower |-> None,
       financials |-> Some([budgetTotal |-> Some(1000), budgetSpent |-> Some(0),
                            costOverrun |-> None])] }

\* `(aiResult.manpower as Record<string, number>) || {}`
RawManpower(raw) ==
    IF IsSome(raw.manpower) THEN Val(raw.manpower)
    ELSE [total |-> None, safetyScore |-> None]
RawFinancials(raw) ==
    IF IsSome(raw.financials) THEN Val(raw.financials)
    ELSE [budgetTotal |-> None, budgetSpent |-> None, costOverrun |-> None]

CashFlowHealth(costOverrun) ==
    IF costOverrun <= 0 THEN "Positive"
    ELSE IF costOverrun < 10 THEN "Neutral" ELSE "Negative"

\* buildProjectData: the fields of ProjectData that the route handlers read.
BuildProjectData(raw) ==
    LET budgetTotal == OrZero(RawFinancials(raw).budgetTotal)
        budgetSpentPct == OrZero(RawFinancials(raw).budgetSpent)
        budgetSpent == RoundDiv(budgetTotal * budgetSpentPct, 100)
        costOverrun == OrZero(RawFinancials(raw).costOverrun)
    IN  [progressPercentage |-> OrZero(raw.progressPercentage),
         delaysFlagged |-> OrZero(raw.delaysFlagged),
         burnRate |-> IF budgetSpent > 0 THEN RoundDiv(budgetSpent, 6) ELSE 0,
         manpower |-> [total |-> OrZero(RawManpower(raw).total),
                       safetyScore |-> OrZero(RawManpower(raw).safetyScore)],
         financials |-> [budgetTotal |-> budgetTotal,
                         budgetSpent |-> budgetSpent,
                         budgetRemaining |-> budgetTotal - budgetSpent,
                         costOverrun |-> costOverrun,
                         projectedFinalCost |->
                             RoundDiv(budgetTotal * (100 + costOverrun), 100),
                         cashFlowHealth |-> CashFlowHealth(costOverrun)]]

\* analyzeImage's error texts: no model configured, or the call / the parse / the
\* normalizer threw inside the try block.
AdapterErrors == {"No GEMINI_API_KEY configured", "AI analysis failed"}

\* analyzeImage's successful return value (lines 115-132).
AnalysisResult(raw) ==
    [error |-> None,
     progressPercentage |-> OrZero(raw.progressPercentage),
     delaysFlagged |-> OrZero(raw.delaysFlagged),
     project_data |-> Some(BuildProjectData(raw))]

\* analyzeImage's error return value (lines 65-76 and 138-149).
AnalysisError(text) ==
    [error |-> Some(text),
     progressPercentage |-> 0,
     delaysFlagged |-> 0,
     project_data |-> None]

(***************************************************************************)
(* buildProjectData over untyped JSON.  The `as number` / `as Record`      *)
(* casts of the source are erased at run time, so a field of the adapter's *)
(* object may hold any JSON value.  A value is its typeof tag `t` with the *)
(* number it holds, or the length of the string or array, in `n`; NaN is   *)
(* tagged "NaN".  The strings explored are not numerals.                   *)
(***************************************************************************)
Js(t, n) == [t |-> t, n |-> n]

\* `v || 0`
JsOrZero(v) ==
    LET truthy == \/ v.t = "number" /\ v.n # 0
                  \/ v.t = "string" /\ v.n > 0
                  \/ v.t \in {"object", "array"}
    IN  IF truthy THEN Js(v.t, v.n) ELSE Js("number", 0)

\* `(aiResult.x || {}).field`: a property read of anything but an object that has
\* the field is undefined.
JsGet(v, field) == IF v.t = "object" THEN v[field] ELSE Js("undefined", 0)

\* lines 241-366, the fields of BuildProjectData and the materials chart.  The result
\* is [error, data]: error is "TypeError" when the function throws.
buildProjectData(aiResult) ==
    LET Num(n) == Js("number", n)
        NaN == Js("NaN", 0)
        IsNum(v) == v.t = "number"
        progressPercentage == JsOrZero(aiResult.progressPercentage)
        budgetTotal == JsOrZero(JsGet(aiResult.financials, "budgetTotal"))
        budgetSpentPct == JsOrZero(JsGet(aiResult.financials, "budgetSpent"))
        budgetSpent == IF IsNum(budgetTotal) /\ IsNum(budgetSpentPct)
                       THEN Num(RoundDiv(budgetTotal.n * budgetSpentPct.n, 100))
                       ELSE NaN
        costOverrun == JsOrZero(JsGet(aiResult.financials, "costOverrun"))
        materials == IF aiResult.materials.t \in {"undefined", "number"}
                        \/ (aiResult.materials.t = "string" /\ aiResult.materials.n = 0)
                     THEN Js("array", 0) ELSE aiResult.materials
        \* `materials.length > 0 ? materials.map((m) => ... m.name ...) : []`
        throws == /\ materials.n > 0
                  /\ \/ materials.t = "string"
                     \/ materials.t = "array" /\ materials.nulls
        data ==
            [progressPercentage |-> progressPercentage,
             delaysFlagged |-> JsOrZero(aiResult.delaysFlagged),
             burnRate |-> IF IsNum(budgetSpent) /\ budgetSpent.n > 0
                          THEN Num(RoundDiv(budgetSpent.n, 6)) ELSE Num(0),
             manpower |-> [total |-> JsOrZero(JsGet(aiResult.manpower, "total")),
                           safetyScore |->
                               JsOrZero(JsGet(aiResult.manpower, "safetyScore"))],
             financials |->
                 [budgetTotal |-> budgetTotal,
                  budgetSpent |-> budgetSpent,
                  budgetRemaining |-> IF IsNum(budgetTotal) /\ IsNum(budgetSpent)
                                      THEN Num(budgetTotal.n - budgetSpent.n) ELSE NaN,
                  costOverrun |-> costOverrun,
                  projectedFinalCost |->
                      IF IsNum(budgetTotal) /\ IsNum(costOverrun)
                      THEN Num(RoundDiv(budgetTotal.n * (100 + costOverrun.n), 100))
                      ELSE NaN]]
    IN  IF throws THEN [error |-> "TypeError", data |-> None]
        ELSE [error |-> "", data |-> Some(data)]

(***************************************************************************)
(* db/mongodb.ts: the collections and the operations on them.  Every       *)
(* operation catches the driver's errors and returns null / false / [] / 0 *)
(* (as it does when db is null); `ok` is the driver's outcome.             *)
(***************************************************************************)
NoProject ==
    [exists |-> FALSE, user_id |-> "none", name |-> "", analyses |-> <<>>,
     project_data |-> None]

\* The driver's outcomes still explored, and the count of failures after one.
Outcomes == IF faults < MaxFaults THEN {TRUE, FALSE} ELSE {TRUE}
Fault(ok) == IF ok THEN faults ELSE faults + 1

getUserById(u, ok) == IF ok THEN Some(users[u]) ELSE None

getProject(pid, ok) ==
    IF ok /\ projects[pid].exists THEN Some(projects[pid]) ELSE None

ProjectsOf(u) == {p \in AllPId : projects[p].exists /\ projects[p].user_id = u}

countUserProjects(u, ok) == IF ok THEN Cardinality(ProjectsOf(u)) ELSE 0

\* find({user_id}).sort({created_at: -1}).skip(0).limit(10): ids are handed out in
\* creation order, so the newest project has the largest id.
RECURSIVE Descending(_)
Descending(S) ==
    IF S = {} THEN <<>>
    ELSE LET m == CHOOSE x \in S : \A y \in S : y <= x
         IN  <<m>> \o Descending(S \ {m})

getUserProjects(u, ok) == IF ok THEN Take(Descending(ProjectsOf(u)), 10) ELSE <<>>

\* createProject inserts under a fresh id; the id is null when the insert fails.
FreeIds == {p \in NewPId : ~projects[p].exists /\ \A q \in NewPId : q >= p => ~projects[q].exists}
NewProject(u, name) ==
    [exists |-> TRUE, user_id |-> u, name |-> name, analyses |-> <<>>,
     project_data |-> None]
createProject(u, name, ok) ==
    IF ok /\ FreeIds # {}
    THEN LET id == CHOOSE p \in FreeIds : \A q \in FreeIds : p <= q
         IN  [id |-> Some(id), projects |-> [projects EXCEPT ![id] = NewProject(u, name)]]
    ELSE [id |-> None, projects |-> projects]

\* updateOne on `projects`: a project that is gone matches nothing (modifiedCount 0).
updateProject(pid, field, value, ok) ==
    IF ok /\ projects[pid].exists
    THEN [projects EXCEPT ![pid] =
            IF field = "project_data" THEN [@ EXCEPT !.project_data = value]
            ELSE [@ EXCEPT !.name = value]]
    ELSE projects

deleteProject(pid, ok) ==
    IF ok /\ projects[pid].exists THEN [projects EXCEPT ![pid] = NoProject]
    ELSE projects

\* addAnalysis: $push analyses, $set project_data: analysisData.project_data || null.
addAnalysis(pid, analysisData, ok) ==
    IF ok /\ projects[pid].exists
    THEN [projects EXCEPT ![pid] =
            [@ EXCEPT !.analyses = Append(@, analysisData),
                      !.project_data = analysisData.project_data]]
    ELSE projects

incrementScanUsage(u, ok) ==
    IF ok THEN [users EXCEPT ![u] = [@ EXCEPT !.scans_used = @ + 1]]
    ELSE users

\* String.prototype.toLowerCase on the addresses explored.
toLowerCase(email) == IF email = "A@x.io" THEN "a@x.io" ELSE email

\* findOne({email: email.toLowerCase()}): the position of the document, or null.
getUserByEmail(email, ok) ==
    LET found == {i \in 1..Len(userEmails) : userEmails[i] = toLowerCase(email)}
    IN  IF ok /\ found # {} THEN Some(CHOOSE i \in found : \A j \in found : i <= j)
        ELSE None

\* insertOne({email: data.email.toLowerCase(), ...}); the collection has no index on
\* email.  The id is null when the insert fails.
createUser(email, ok) ==
    IF ok THEN [id |-> Some(Len(userEmails) + 1),
                userEmails |-> Append(userEmails, toLowerCase(email))]
    ELSE [id |-> None, userEmails |-> userEmails]

\* updateMany({_id: {$in: ids}}, {$set: {read: true}}); modifiedCount counts the
\* documents that were changed.
markNotificationsRead(notificationIds, ok) ==
    IF ok
    THEN [count |-> Cardinality({n \in notificationIds \cap DOMAIN notifications :
                                   ~notifications[n].read}),
          notifications |-> [n \in DOMAIN notifications |->
                               IF n \in notificationIds
                               THEN [notifications[n] EXCEPT !.read = TRUE]
                               ELSE notifications[n]]]
    ELSE [count |-> 0, notifications |-> notifications]

\* The entries of a project, and find + sort({analysis_date: -1}).
EntriesOf(pid) == {i \in 1..Len(history) : history[i].project_id = pid}

getLatestAnalysis(pid, ok) ==
    IF ok /\ EntriesOf(pid) # {}
    THEN Some(history[CHOOSE i \in EntriesOf(pid) :
                 \A j \in EntriesOf(pid) :
                     history[j].analysis_date <= history[i].analysis_date])
    ELSE None

\* find({project_id}).sort({analysis_date: -1}).limit(limit)
RECURSIVE ByDateDesc(_)
ByDateDesc(S) ==
    IF S = {} THEN <<>>
    ELSE LET m == CHOOSE i \in S :
                     \A j \in S : history[j].analysis_date <= history[i].analysis_date
         IN  <<history[m]>> \o ByDateDesc(S \ {m})

\* The mutant sorts the other way round: the oldest entries come first.
getAnalysisHistoryAscending(pid, limit, ok) ==
    LET desc == ByDateDesc(EntriesOf(pid)) IN
    IF ok THEN Take([i \in 1..Len(desc) |-> desc[Len(desc) + 1 - i]], limit) ELSE <<>>

getAnalysisHistory(pid, limit, ok) ==
    IF ok THEN Take(ByDateDesc(EntriesOf(pid)), limit) ELSE <<>>

\* The mutant writes with replaceOne({project_id}, doc, {upsert: true}): the entry of
\* the project that was inserted last is overwritten.
createAnalysisHistoryUpsert(pid, u, snapshot, deltas, seen, ok) ==
    LET doc == [project_id |-> pid, user_id |-> u, analysis_date |-> clock + 1,
                snapshot |-> snapshot, deltas |-> deltas, seen |-> seen]
        own == {i \in 1..Len(history) : history[i].project_id = pid}
    IN  IF ~ok THEN history
        ELSE IF own = {} THEN Append(history, doc)
        ELSE [history EXCEPT ![CHOOSE i \in own : \A j \in own : j <= i] = doc]

\* createAnalysisHistory: insertOne with analysis_date: new Date().  `seen` is not a
\* field of the document: it records the analysis_date of the entry that
\* getLatestAnalysis returned to the request that writes this one (0: none).
createAnalysisHistory(pid, u, snapshot, deltas, seen, ok) ==
    IF ok
    THEN Append(history, [project_id |-> pid, user_id |-> u,
                          analysis_date |-> clock + 1,
                          snapshot |-> snapshot, deltas |-> deltas, seen |-> seen])
    ELSE history

(***************************************************************************)
(* middleware/auth.middleware.ts                                           *)
(***************************************************************************)

\* checkScanLimit lines 133-138.
ScanLimitReached(sub) ==
    LET scansUsed == sub.scans_used
        scansLimit == IF sub.scans_limit # 0 THEN sub.scans_limit ELSE FreeScansLimit
    IN  sub.plan = "free" /\ scansUsed >= scansLimit

\* requirePremium line 157.
PremiumRequired(sub) == sub.plan = "free"

\* The operations, and the preHandler each route declares (project.routes.ts lines
\* 43, 77, 120, 147, 180, 223, 257, 372, 416, 494; portfolio routes lines 192, 209,
\* 235, 259).
ProjectOps == {"get", "data", "update", "delete", "analyze", "analyses", "trends",
               "forecast"}
PortfolioOps == {"summary", "comparison", "top-risks", "resource-allocation"}
PreHandlerOf(op) == IF op = "analyze" THEN "checkScanLimit" ELSE "requireAuth"

(***************************************************************************)
(* Requests.  A request slot holds the handler's position and locals; the  *)
(* caller presents a valid access token of an active user.                 *)
(***************************************************************************)
NoResp == [status |-> 0, detail |-> "", owner |-> "none", data |-> None]
Resp(status, detail) == [status |-> status, detail |-> detail, owner |-> "none", data |-> None]
\* A response with a body; `owner` is the owner of the documents the body was built
\* from.
Data(status, owner, data) ==
    [status |-> status, detail |-> "", owner |-> owner, data |-> Some(data)]

IdleReq ==
    [pc |-> "idle", op |-> "none", user |-> "u1", pid |-> 1,
     sub |-> FreeSubscription(0), owner |-> "none", result |-> None, prev |-> None,
     deltas |-> None, saveFailed |-> FALSE, email |-> "", resp |-> NoResp]

\* reply.send / return: the handler ends with this response.
Reply(r, resp) ==
    [req EXCEPT ![r] = [IdleReq EXCEPT !.pc = "done", !.op = req[r].op,
                                       !.user = req[r].user, !.pid = req[r].pid,
                                       !.resp = resp]]
Goto(r, pc) == [req EXCEPT ![r] = [@ EXCEPT !.pc = pc]]

\* reply.send is synchronous: the response leaves in the step that builds it.  It is
\* kept in the slot for one step, in which nothing else runs, and Respond then frees
\* the slot.
Running == \A q \in Req : req[q].pc # "done"

Respond(r) ==
    /\ req[r].pc = "done"
    /\ req' = [req EXCEPT ![r] = IdleReq]
    /\ UNCHANGED <<users, projects, history, clock, started, faults, succ>>
    /\ UNCHANGED <<connVars, userEmails, notifications>>

\* A request arrives and takes the first free slot.
Free(r) == req[r].pc = "idle"
Start(r, op, u, pid) ==
    /\ Running
    /\ Free(r)
    /\ \A q \in Req : Free(q) => ~(q < r)
    /\ started < MaxRequests
    /\ started' = started + 1
    /\ req' = [req EXCEPT ![r] = [IdleReq EXCEPT !.pc = "auth", !.op = op,
                                               !.user = u, !.pid = pid]]
    /\ UNCHANGED <<users, projects, history, clock, faults, succ>>
    /\ UNCHANGED <<connVars, userEmails, notifications>>

\* requireAuth lines 59-79: the user is looked up and its subscription attached.
\* checkScanLimit and requirePremium run their test right after it.
PreHandler(r) ==
    /\ req[r].pc = "auth" /\ Running
    /\ \E ok \in Outcomes :
          LET user == getUserById(req[r].user, ok) IN
          /\ faults' = Fault(ok)
          /\ req' =
               IF ~IsSome(user) THEN Reply(r, Resp(401, "User not found"))
               ELSE IF PreHandlerOf(req[r].op) = "checkScanLimit"
                       /\ ScanLimitReached(Val(user))
               THEN Reply(r, Resp(403, "Scan limit reached. Please upgrade your plan."))
               ELSE IF PreHandlerOf(req[r].op) = "requirePremium"
                       /\ PremiumRequired(Val(user))
               THEN Reply(r, Resp(403, "Premium subscription required"))
               ELSE [req EXCEPT ![r] = [@ EXCEPT !.sub = Val(user),
                        !.pc = IF req[r].op = "create" THEN "countUserProjects"
                               ELSE IF req[r].op \in PortfolioOps THEN "getUserProjects"
                               ELSE IF req[r].op = "mark-read"
                               THEN "markNotificationsRead"
                               ELSE "getProject"]]
    /\ UNCHANGED <<users, projects, history, clock, started, succ>>
    /\ UNCHANGED <<connVars, userEmails, notifications>>

\* `const project = await mongodb.getProject(projectId);
\*  if (!project || project.user_id.toString() !== userId) return 404`
\* The mutant accepts every project that exists.
OwnedByAnyone(r, project) == IsSome(project)
Owned(r, project) == IsSome(project) /\ Val(project).user_id = req[r].user
NotFound == Resp(404, "Project not found")

(***************************************************************************)
(* project.routes.ts: POST /:projectId/analyze                             *)
(***************************************************************************)
AnalyzeGetProject(r) ==
    /\ req[r].op = "analyze"
    /\ req[r].pc = "getProject" /\ Running
    /\ \E ok \in Outcomes :
          /\ faults' = Fault(ok)
          /\ req' = IF Owned(r, getProject(req[r].pid, ok))
                    THEN Goto(r, "analyzeImage")
                    ELSE Reply(r, NotFound)
    /\ UNCHANGED <<users, projects, history, clock, started, succ>>
    /\ UNCHANGED <<connVars, userEmails, notifications>>

\* The mutant counts the failed scan before it answers.
AnalyzeAdapterErrorCounted(r) ==
    /\ req[r].pc = "analyzeImage" /\ Running
    /\ \E text \in AdapterErrors :
          req' = Reply(r, Resp(400, Val(AnalysisError(text).error)))
    /\ users' = incrementScanUsage(req[r].user, TRUE)
    /\ UNCHANGED <<projects, history, clock, started, faults, succ>>
    /\ UNCHANGED <<connVars, userEmails, notifications>>

\* aiService.analyzeImage returns an error result; the handler answers 400 (285-292).
AnalyzeAdapterError(r) ==
    /\ req[r].pc = "analyzeImage" /\ Running
    /\ \E text \in AdapterErrors :
          LET analysisResult == AnalysisError(text) IN
          req' = Reply(r, Resp(400, Val(analysisResult.error)))
    /\ UNCHANGED <<users, projects, history, clock, started, faults, succ>>
    /\ UNCHANGED <<connVars, userEmails, notifications>>

\* aiService.analyzeImage returns a result; the handler goes on to save it.
AnalyzeAdapterResult(r) ==
    /\ req[r].pc = "analyzeImage" /\ Running
    /\ \E raw \in RawResults :
          req' = [req EXCEPT ![r] = [@ EXCEPT !.pc = "addAnalysis",
                                              !.result = Some(AnalysisResult(raw))]]
    /\ UNCHANGED <<users, projects, history, clock, started, faults, succ>>
    /\ UNCHANGED <<connVars, userEmails, notifications>>

\* `return result.modifiedCount > 0` of addAnalysis and updateProject: what the store
\* function reports for a write to project pid.  The handler does not look at it;
\* saveFailed records a reported failure for the properties.
Modified(pid, ok) == ok /\ projects[pid].exists

\* lines 295-307
AnalyzeAddAnalysis(r) ==
    /\ req[r].pc = "addAnalysis" /\ Running
    /\ \E ok \in Outcomes :
          LET analysisResult == Val(req[r].result)
              analysisData == [progressPercentage |-> analysisResult.progressPercentage,
                               project_data |-> analysisResult.project_data]
          IN  /\ projects' = addAnalysis(req[r].pid, analysisData, ok)
              /\ faults' = Fault(ok)
              /\ req' = [req EXCEPT ![r] =
                           [@ EXCEPT !.pc = IF IsSome(analysisResult.project_data)
                                            THEN "updateProject"
                                            ELSE "incrementScanUsage",
                                     !.saveFailed = ~Modified(req[r].pid, ok)]]
    /\ UNCHANGED <<users, history, clock, started, succ>>
    /\ UNCHANGED <<connVars, userEmails, notifications>>

\* lines 310-314
AnalyzeUpdateProject(r) ==
    /\ req[r].op = "analyze"
    /\ req[r].pc = "updateProject" /\ Running
    /\ \E ok \in Outcomes :
          /\ projects' = updateProject(req[r].pid, "project_data",
                                       Val(req[r].result).project_data, ok)
          /\ faults' = Fault(ok)
          /\ req' = [req EXCEPT ![r] =
                       [@ EXCEPT !.pc = "incrementScanUsage",
                                 !.saveFailed = @ \/ ~Modified(req[r].pid, ok)]]
    /\ UNCHANGED <<users, history, clock, started, succ>>
    /\ UNCHANGED <<connVars, userEmails, notifications>>

\* line 317
AnalyzeIncrementScanUsage(r) ==
    /\ req[r].pc = "incrementScanUsage" /\ Running
    /\ \E ok \in Outcomes :
          /\ users' = incrementScanUsage(req[r].user, ok)
          /\ faults' = Fault(ok)
          /\ req' = Goto(r, "getLatestAnalysis")
    /\ UNCHANGED <<projects, history, clock, started, succ>>
    /\ UNCHANGED <<connVars, userEmails, notifications>>

\* `x ? x - (y || 0) : undefined` of lines 323-331, on project_data?.a?.b and
\* previousAnalysis.snapshot.a?.b.
TruthyDelta(new, old) ==
    IF IsSome(new) /\ Val(new) # 0 THEN Some(Val(new) - OrZero(old)) ELSE None

Field(o, f) == IF IsSome(o) THEN Some(Val(o)[f]) ELSE None
Field2(o, f, g) == Field(Field(o, f), g)

\* lines 321-333: the mutant omits the record when progress has not changed.
ComputeDeltasOmitUnchanged(analysisResult, previousAnalysis) ==
    IF IsSome(previousAnalysis)
       /\ analysisResult.progressPercentage
            # Val(previousAnalysis).snapshot.progressPercentage
    THEN Some([progress |-> analysisResult.progressPercentage
                              - Val(previousAnalysis).snapshot.progressPercentage,
               budget_spent |-> None, workers |-> None, safety_score |-> None,
               delays |-> 0])
    ELSE None

ComputeDeltas(analysisResult, previousAnalysis) ==
    IF IsSome(previousAnalysis)
    THEN LET snapshot == Val(previousAnalysis).snapshot IN
         Some([progress |-> analysisResult.progressPercentage
                              - snapshot.progressPercentage,
               budget_spent |->
                   TruthyDelta(Field2(analysisResult.project_data, "financials", "budgetSpent"),
                               Field(snapshot.financials, "budgetSpent")),
               workers |->
                   TruthyDelta(Field2(analysisResult.project_data, "manpower", "total"),
                               Field(snapshot.manpower, "total")),
               safety_score |->
                   TruthyDelta(Field2(analysisResult.project_data, "manpower", "safetyScore"),
                               Field(snapshot.manpower, "safetyScore")),
               delays |-> analysisResult.delaysFlagged - snapshot.delaysFlagged])
    ELSE None

\* lines 335-347
Snapshot(analysisResult) ==
    [progressPercentage |-> analysisResult.progressPercentage,
     delaysFlagged |-> analysisResult.delaysFlagged,
     manpower |-> Field(analysisResult.project_data, "manpower"),
     financials |-> Field(analysisResult.project_data, "financials")]

\* lines 320-333
AnalyzeGetLatestAnalysis(r) ==
    /\ req[r].pc = "getLatestAnalysis" /\ Running
    /\ \E ok \in Outcomes :
          LET previousAnalysis == getLatestAnalysis(req[r].pid, ok) IN
          /\ faults' = Fault(ok)
          /\ req' = [req EXCEPT ![r] = [@ EXCEPT
                        !.pc = "createAnalysisHistory",
                        !.prev = previousAnalysis,
                        !.deltas = ComputeDeltas(Val(req[r].result), previousAnalysis)]]
    /\ UNCHANGED <<users, projects, history, clock, started, succ>>
    /\ UNCHANGED <<connVars, userEmails, notifications>>

\* The mutant treats the history write as critical: when it fails the request is
\* answered 500.
AnalyzeCreateHistoryChecked(r) ==
    /\ req[r].pc = "createAnalysisHistory" /\ Running
    /\ \E ok \in Outcomes :
          LET analysisResult == Val(req[r].result)
              seen == IF IsSome(req[r].prev) THEN Val(req[r].prev).analysis_date ELSE 0
          IN  /\ history' = createAnalysisHistory(req[r].pid, req[r].user,
                                Snapshot(analysisResult), req[r].deltas, seen, ok)
              /\ clock' = IF ok THEN clock + 1 ELSE clock
              /\ faults' = Fault(ok)
              /\ req' = IF ok
                        THEN Reply(r, Data(200, req[r].user,
                                           Val(analysisResult.project_data)))
                        ELSE Reply(r, Resp(500, "Internal server error"))
              /\ succ' = IF ok THEN [succ EXCEPT ![req[r].user] = @ + 1] ELSE succ
    /\ UNCHANGED <<users, projects, started>>
    /\ UNCHANGED <<connVars, userEmails, notifications>>

\* lines 349-364: the history entry is written and the success response returned.
AnalyzeCreateHistory(r) ==
    /\ req[r].pc = "createAnalysisHistory" /\ Running
    /\ \E ok \in Outcomes :
          LET analysisResult == Val(req[r].result)
              seen == IF IsSome(req[r].prev) THEN Val(req[r].prev).analysis_date ELSE 0
          IN  /\ history' = createAnalysisHistory(req[r].pid, req[r].user,
                                Snapshot(analysisResult), req[r].deltas, seen, ok)
              /\ clock' = IF ok THEN clock + 1 ELSE clock
              /\ faults' = Fault(ok)
              /\ req' = [Reply(r, Data(200, req[r].user,
                                        Val(analysisResult.project_data)))
                            EXCEPT ![r].saveFailed = req[r].saveFailed]
              /\ succ' = [succ EXCEPT ![req[r].user] = @ + 1]
    /\ UNCHANGED <<users, projects, started>>
    /\ UNCHANGED <<connVars, userEmails, notifications>>

(***************************************************************************)
(* project.routes.ts: POST /api/projects                                   *)
(***************************************************************************)
projectToResponse(pid, project) == [id |-> pid, name |-> project.name]

\* lines 88-95: the count is read and compared with the plan's limit.
CreateCountProjects(r) ==
    /\ req[r].op = "create"
    /\ req[r].pc = "countUserProjects" /\ Running
    /\ \E ok \in Outcomes :
          LET projectCount == countUserProjects(req[r].user, ok)
              maxProjects == IF req[r].sub.max_projects # 0 THEN req[r].sub.max_projects
                             ELSE FreeMaxProjects
          IN  /\ faults' = Fault(ok)
              /\ req' = IF projectCount >= maxProjects
                        THEN Reply(r, Resp(403, "Project limit reached"))
                        ELSE Goto(r, "createProject")
    /\ UNCHANGED <<users, projects, history, clock, started, succ>>
    /\ UNCHANGED <<connVars, userEmails, notifications>>

\* lines 97-103: the project is inserted; the new id is kept in the request's pid.
CreateInsert(r) ==
    /\ req[r].pc = "createProject" /\ Running
    /\ \E ok \in Outcomes, name \in Names :
          LET created == createProject(req[r].user, name, ok) IN
          /\ projects' = created.projects
          /\ faults' = Fault(ok)
          /\ req' = IF IsSome(created.id)
                    THEN [req EXCEPT ![r] = [@ EXCEPT !.pc = "getCreated",
                                                        !.pid = Val(created.id)]]
                    ELSE Reply(r, Resp(500, "Failed to create project"))
    /\ UNCHANGED <<users, history, clock, started, succ>>
    /\ UNCHANGED <<connVars, userEmails, notifications>>

\* lines 105-112
CreateGetProject(r) ==
    /\ req[r].pc = "getCreated" /\ Running
    /\ \E ok \in Outcomes :
          LET project == getProject(req[r].pid, ok) IN
          /\ faults' = Fault(ok)
          /\ req' = IF IsSome(project)
                    THEN Reply(r, Data(201, Val(project).user_id,
                                       projectToResponse(req[r].pid, Val(project))))
                    ELSE Reply(r, Resp(500, "Failed to retrieve created project"))
    /\ UNCHANGED <<users, projects, history, clock, started, succ>>
    /\ UNCHANGED <<connVars, userEmails, notifications>>

(***************************************************************************)
(* project.routes.ts: GET /:projectId, GET /:projectId/data,               *)
(* GET /:projectId/analyses                                                *)
(***************************************************************************)
EmptyRaw ==
    [progressPercentage |-> None, delaysFlagged |-> None, manpower |-> None,
     financials |-> None]
getDefaultProjectData == BuildProjectData(EmptyRaw)

\* lines 131-139
GetProject(r) ==
    /\ req[r].op = "get"
    /\ req[r].pc = "getProject" /\ Running
    /\ \E ok \in Outcomes :
          LET project == getProject(req[r].pid, ok) IN
          /\ faults' = Fault(ok)
          /\ req' = IF Owned(r, project)
                    THEN Reply(r, Data(200, Val(project).user_id,
                                       projectToResponse(req[r].pid, Val(project))))
                    ELSE Reply(r, NotFound)
    /\ UNCHANGED <<users, projects, history, clock, started, succ>>
    /\ UNCHANGED <<connVars, userEmails, notifications>>

\* lines 158-172
GetProjectData(r) ==
    /\ req[r].op = "data"
    /\ req[r].pc = "getProject" /\ Running
    /\ \E ok \in Outcomes :
          LET project == getProject(req[r].pid, ok) IN
          /\ faults' = Fault(ok)
          /\ req' = IF ~Owned(r, project) THEN Reply(r, NotFound)
                    ELSE IF IsSome(Val(project).project_data)
                    THEN Reply(r, Data(200, Val(project).user_id,
                                       Val(Val(project).project_data)))
                    ELSE Reply(r, Data(200, Val(project).user_id, getDefaultProjectData))
    /\ UNCHANGED <<users, projects, history, clock, started, succ>>
    /\ UNCHANGED <<connVars, userEmails, notifications>>

\* lines 387-408: (project.analyses || []).slice(0, limit)
GetAnalyses(r) ==
    /\ req[r].op = "analyses"
    /\ req[r].pc = "getProject" /\ Running
    /\ \E ok \in Outcomes, limit \in {1, 10} :
          LET project == getProject(req[r].pid, ok) IN
          /\ faults' = Fault(ok)
          /\ req' = IF Owned(r, project)
                    THEN Reply(r, Data(200, Val(project).user_id,
                                       Take(Val(project).analyses, limit)))
                    ELSE Reply(r, NotFound)
    /\ UNCHANGED <<users, projects, history, clock, started, succ>>
    /\ UNCHANGED <<connVars, userEmails, notifications>>

(***************************************************************************)
(* project.routes.ts: PUT /:projectId and DELETE /:projectId               *)
(***************************************************************************)
\* lines 193-199
UpdateGetProject(r) ==
    /\ req[r].op = "update"
    /\ req[r].pc = "getProject" /\ Running
    /\ \E ok \in Outcomes :
          /\ faults' = Fault(ok)
          /\ req' = IF Owned(r, getProject(req[r].pid, ok))
                    THEN Goto(r, "updateProject")
                    ELSE Reply(r, NotFound)
    /\ UNCHANGED <<users, projects, history, clock, started, succ>>
    /\ UNCHANGED <<connVars, userEmails, notifications>>

\* lines 201-206: `updated` is modifiedCount > 0.
UpdateUpdateProject(r) ==
    /\ req[r].op = "update"
    /\ req[r].pc = "updateProject" /\ Running
    /\ \E ok \in Outcomes, name \in Names :
          LET updated == ok /\ projects[req[r].pid].exists IN
          /\ projects' = updateProject(req[r].pid, "name", name, ok)
          /\ faults' = Fault(ok)
          /\ req' = IF updated THEN Goto(r, "getUpdated")
                    ELSE Reply(r, Resp(500, "Failed to update project"))
    /\ UNCHANGED <<users, history, clock, started, succ>>
    /\ UNCHANGED <<connVars, userEmails, notifications>>

\* lines 208-215
UpdateGetUpdated(r) ==
    /\ req[r].pc = "getUpdated" /\ Running
    /\ \E ok \in Outcomes :
          LET updatedProject == getProject(req[r].pid, ok) IN
          /\ faults' = Fault(ok)
          /\ req' = IF IsSome(updatedProject)
                    THEN Reply(r, Data(200, Val(updatedProject).user_id,
                                       projectToResponse(req[r].pid, Val(updatedProject))))
                    ELSE Reply(r, Resp(500, "Failed to retrieve updated project"))
    /\ UNCHANGED <<users, projects, history, clock, started, succ>>
    /\ UNCHANGED <<connVars, userEmails, notifications>>

\* lines 234-240
DeleteGetProject(r) ==
    /\ req[r].op = "delete"
    /\ req[r].pc = "getProject" /\ Running
    /\ \E ok \in Outcomes :
          /\ faults' = Fault(ok)
          /\ req' = IF Owned(r, getProject(req[r].pid, ok))
                    THEN Goto(r, "deleteProject")
                    ELSE Reply(r, NotFound)
    /\ UNCHANGED <<users, projects, history, clock, started, succ>>
    /\ UNCHANGED <<connVars, userEmails, notifications>>

\* lines 242-249: `deleted` is deletedCount > 0.
DeleteDeleteProject(r) ==
    /\ req[r].pc = "deleteProject" /\ Running
    /\ \E ok \in Outcomes :
          LET deleted == ok /\ projects[req[r].pid].exists IN
          /\ projects' = deleteProject(req[r].pid, ok)
          /\ faults' = Fault(ok)
          /\ req' = IF deleted THEN Reply(r, Resp(204, ""))
                    ELSE Reply(r, Resp(500, "Failed to delete project"))
    /\ UNCHANGED <<users, history, clock, started, succ>>
    /\ UNCHANGED <<connVars, userEmails, notifications>>

(***************************************************************************)
(* project.routes.ts: GET /:projectId/trends and GET /:projectId/forecast. *)
(* One tick of the clock is one day.                                       *)
(***************************************************************************)
\* The mutant leaves the array as the store returned it.
KeepOrder(s) == s
Reverse(s) == [i \in 1..Len(s) |-> s[Len(s) + 1 - i]]

\* lines 453-465: one point of the time series.
TrendPoint(analysis) ==
    [date |-> analysis.analysis_date,
     progress |-> analysis.snapshot.progressPercentage,
     budget_spent |-> OrZero(Field(analysis.snapshot.financials, "budgetSpent")),
     budget_total |-> OrZero(Field(analysis.snapshot.financials, "budgetTotal")),
     workers |-> OrZero(Field(analysis.snapshot.manpower, "total")),
     safety_score |-> OrZero(Field(analysis.snapshot.manpower, "safetyScore")),
     delays |-> analysis.snapshot.delaysFlagged,
     deltas |-> analysis.deltas]

\* The mutant divides by the number of steps between the entries, not by the days.
VelocityPerStep(trends) ==
    IF Len(trends) >= 2
    THEN ToFixed(100 * (trends[Len(trends)].progress - trends[1].progress),
                 Len(trends) - 1)
    ELSE 0

\* lines 467-480: Number(velocity.toFixed(2)), in hundredths of a percent per day.
Velocity(trends) ==
    IF Len(trends) >= 2
    THEN LET first == trends[1]
             last == trends[Len(trends)]
             daysDiff == last.date - first.date
             progressDiff == last.progress - first.progress
         IN  IF daysDiff > 0 THEN ToFixed(100 * progressDiff, daysDiff) ELSE 0
    ELSE 0

\* lines 443-486
TrendsResponse(history_, metric) ==
    IF Len(history_) = 0
    THEN [data_points |-> 0,
          message |-> "No historical data available yet. Upload more analyses to see trends.",
          trends |-> <<>>]
    ELSE LET trends == [i \in 1..Len(history_) |-> TrendPoint(Reverse(history_)[i])]
         IN  [data_points |-> Len(trends),
              velocity |-> Velocity(trends),
              trends |-> IF metric = "all" THEN trends
                         ELSE [i \in 1..Len(trends) |->
                                 [date |-> trends[i].date, progress |-> trends[i].progress]]]

\* lines 432-438 and 505-511
HistoryGetProject(r) ==
    /\ req[r].op \in {"trends", "forecast"}
    /\ req[r].pc = "getProject" /\ Running
    /\ \E ok \in Outcomes :
          LET project == getProject(req[r].pid, ok) IN
          /\ faults' = Fault(ok)
          /\ req' = IF Owned(r, project)
                    THEN [req EXCEPT ![r] = [@ EXCEPT !.pc = "getAnalysisHistory",
                                                        !.owner = Val(project).user_id]]
                    ELSE Reply(r, NotFound)
    /\ UNCHANGED <<users, projects, history, clock, started, succ>>
    /\ UNCHANGED <<connVars, userEmails, notifications>>

\* lines 441-487
Trends(r) ==
    /\ req[r].op = "trends"
    /\ req[r].pc = "getAnalysisHistory" /\ Running
    /\ \E ok \in Outcomes, limit \in {2, 30}, metric \in {"all", "progress"} :
          LET history_ == getAnalysisHistory(req[r].pid, limit, ok)
              \* the request's query, kept with the answer for the properties
              query == [limit |-> limit, metric |-> metric]
          IN
          /\ faults' = Fault(ok)
          /\ req' = Reply(r, Data(200, req[r].owner,
                                  query @@ TrendsResponse(history_, metric)))
    /\ UNCHANGED <<users, projects, history, clock, started, succ>>
    /\ UNCHANGED <<connVars, userEmails, notifications>>

RECURSIVE Sum(_, _)
Sum(f, n) == IF n = 0 THEN 0 ELSE f[n] + Sum(f, n - 1)

\* lines 523-527: `history.reverse().map((h, idx) => ...)`, the regression's input.
ForecastData(history_) ==
    [i \in 1..Len(history_) |->
        [x |-> i - 1,
         progress |-> Reverse(history_)[i].snapshot.progressPercentage,
         budget |-> OrZero(Field(Reverse(history_)[i].snapshot.financials,
                                 "budgetSpent"))]]

\* lines 523-565.  The regression line is kept as the fraction slopeNum / slopeDen
\* (slopeDen > 0 for n >= 2); days is Math.ceil(stepsTo100 * 7).  `series` is not
\* part of the response: it keeps the handler's `data` for the properties.
ForecastResponse(history_) ==
    LET data == ForecastData(history_)
        n == Len(data)
        sumX == Sum([i \in 1..n |-> data[i].x], n)
        sumY == Sum([i \in 1..n |-> data[i].progress], n)
        sumXY == Sum([i \in 1..n |-> data[i].x * data[i].progress], n)
        sumX2 == Sum([i \in 1..n |-> data[i].x * data[i].x], n)
        slopeNum == n * sumXY - sumX * sumY
        slopeDen == n * sumX2 - sumX * sumX
        \* (100 - intercept) / slope * 7, with intercept = (sumY - slope * sumX) / n
        daysTo100 == IF slopeNum > 0
                     THEN Some(CeilDiv(7 * (100 * n * slopeDen - sumY * slopeDen
                                              + slopeNum * sumX),
                                       n * slopeNum))
                     ELSE None
        estimated == IsSome(daysTo100) /\ Val(daysTo100) # 0
        currentBudget == data[n].budget
        currentProgress == data[n].progress
        \* Number(projectedFinalBudget.toFixed(2)), in hundredths
        projectedFinalBudget == IF currentProgress > 0
                                THEN ToFixed(10000 * currentBudget, currentProgress)
                                ELSE 0
        recentVelocity == IF n >= 3 THEN data[n].progress - data[n - 2].progress ELSE 0
        riskLevel == IF recentVelocity < 5 THEN "high"
                     ELSE IF recentVelocity < 10 THEN "medium" ELSE "low"
    IN  [completion_date_estimate |-> IF estimated THEN daysTo100 ELSE None,
         completion_confidence |->
             IF ~estimated THEN "insufficient data"
             ELSE IF 2 * slopeNum > slopeDen THEN "high"
             ELSE IF 5 * slopeNum > slopeDen THEN "medium" ELSE "low",
         final_budget_projection |-> projectedFinalBudget,
         budget_overrun_risk |-> currentProgress > 0 /\ currentBudget > currentProgress,
         risk_level |-> riskLevel,
         recommendations |->
             (IF recentVelocity < 5 THEN {"velocity"} ELSE {})
             \cup (IF currentProgress > 0 /\ 100 * currentBudget > 110 * currentProgress
                   THEN {"budget"} ELSE {})
             \cup (IF riskLevel = "high" THEN {"review"} ELSE {}),
         based_on |-> Len(history_),
         series |-> data]

\* The mutant asks for one entry only before it forecasts.
ForecastFromOneEntry(r) ==
    /\ req[r].op = "forecast"
    /\ req[r].pc = "getAnalysisHistory" /\ Running
    /\ \E ok \in Outcomes :
          LET history_ == getAnalysisHistory(req[r].pid, 10, ok) IN
          /\ faults' = Fault(ok)
          /\ req' = IF Len(history_) < 1
                    THEN Reply(r, Resp(400, "Insufficient data for forecasting"))
                    ELSE Reply(r, Data(200, req[r].owner, ForecastResponse(history_)))
    /\ UNCHANGED <<users, projects, history, clock, started, succ>>
    /\ UNCHANGED <<connVars, userEmails, notifications>>

\* lines 514-566
Forecast(r) ==
    /\ req[r].op = "forecast"
    /\ req[r].pc = "getAnalysisHistory" /\ Running
    /\ \E ok \in Outcomes :
          LET history_ == getAnalysisHistory(req[r].pid, 10, ok) IN
          /\ faults' = Fault(ok)
          /\ req' = IF Len(history_) < 2
                    THEN Reply(r, Resp(400, "Insufficient data for forecasting"))
                    ELSE Reply(r, Data(200, req[r].owner, ForecastResponse(history_)))
    /\ UNCHANGED <<users, projects, history, clock, started, succ>>
    /\ UNCHANGED <<connVars, userEmails, notifications>>

(***************************************************************************)
(* portfolio.service.ts and the portfolio routes                           *)
(***************************************************************************)
\* compareProjects lines 128-161, for one project.
Comparison(pid) ==
    LET data == projects[pid].project_data
        progress == OrZero(Field(data, "progressPercentage"))
        budgetSpent == OrZero(Field2(data, "financials", "budgetSpent"))
        safetyScore == OrZero(Field2(data, "manpower", "safetyScore"))
        delays == OrZero(Field(data, "delaysFlagged"))
        riskLevel ==
            IF delays > 3 \/ safetyScore < 70 \/ (progress < 50 /\ budgetSpent > 60)
            THEN "high"
            ELSE IF delays > 1 \/ safetyScore < 85 \/ (progress < 70 /\ budgetSpent > 80)
            THEN "medium" ELSE "low"
    IN  [project_id |-> pid, name |-> projects[pid].name, progress |-> progress,
         budget_spent_pct |-> budgetSpent, safety_score |-> safetyScore,
         risk_level |-> riskLevel,
         status |-> IF delays > 2 THEN "delayed"
                    ELSE IF riskLevel \in {"high", "medium"} THEN "at_risk"
                    ELSE "on_track"]

compareProjects(list) == [i \in 1..Len(list) |-> Comparison(list[i])]

\* getTopRiskProjects lines 164-172: a stable sort by risk, high first.
RiskOrder(c) == IF c.risk_level = "high" THEN 3 ELSE IF c.risk_level = "medium" THEN 2 ELSE 1
SelectByRisk(s, k) == SelectSeq(s, LAMBDA c : RiskOrder(c) = k)
getTopRiskProjects(list, limit) ==
    LET comparisons == compareProjects(list)
    IN  Take(SelectByRisk(comparisons, 3) \o SelectByRisk(comparisons, 2)
                \o SelectByRisk(comparisons, 1), limit)

\* getPortfolioSummary lines 33-118: the counts and sums of whole numbers.  The
\* status counts skip the projects without project_data; avg_progress (in tenths)
\* divides by the number of all projects.  totalBudgetSpent is the handler's
\* variable of that name before it is formatted into total_budget_spent.
StatusOf(data) ==
    IF data.delaysFlagged > 2 THEN "delayed"
    ELSE IF data.progressPercentage < 50 /\ data.financials.budgetSpent > 60 THEN "at_risk"
    ELSE "on_track"

getPortfolioSummary(list) ==
    LET withData == SelectSeq(list, LAMBDA p : IsSome(projects[p].project_data))
        data == [i \in 1..Len(withData) |-> Val(projects[withData[i]].project_data)]
        k == Len(data)
        Count(status) == Cardinality({i \in 1..k : StatusOf(data[i]) = status})
        safetyScoreCount == Cardinality({i \in 1..k : data[i].manpower.safetyScore # 0})
        totalSafetyScore == Sum([i \in 1..k |-> data[i].manpower.safetyScore], k)
        \* lines 84-88, in hundredths: `spent = (budgetTotal * budgetSpent) / 100`
        totalBudgetSpent ==
            Sum([i \in 1..k |->
                    IF data[i].financials.budgetTotal # 0 /\ data[i].financials.budgetSpent # 0
                    THEN data[i].financials.budgetTotal * data[i].financials.budgetSpent
                    ELSE 0], k)
    IN  IF Len(list) = 0
        THEN [total_projects |-> 0, avg_progress |-> 0, projects_on_track |-> 0,
              projects_at_risk |-> 0, projects_delayed |-> 0, total_workers |-> 0,
              avg_safety_score |-> 0, totalBudgetSpent |-> 0]
        ELSE [total_projects |-> Len(list),
              totalBudgetSpent |-> totalBudgetSpent,
              avg_progress |->
                  ToFixed(10 * Sum([i \in 1..k |-> data[i].progressPercentage], k), Len(list)),
              projects_on_track |-> Count("on_track"),
              projects_at_risk |-> Count("at_risk"),
              projects_delayed |-> Count("delayed"),
              total_workers |-> Sum([i \in 1..k |-> data[i].manpower.total], k),
              avg_safety_score |-> IF safetyScoreCount > 0
                                   THEN ToFixed(totalSafetyScore, safetyScoreCount)
                                   ELSE 0]

\* resource-allocation lines 264-292
ResourceAllocation(list) ==
    LET workers == [i \in 1..Len(list) |->
                      OrZero(Field2(projects[list[i]].project_data, "manpower", "total"))]
        budget == [i \in 1..Len(list) |->
                      OrZero(Field2(projects[list[i]].project_data, "financials", "budgetTotal"))]
    IN  [total_workers |-> Sum(workers, Len(list)),
         total_budget |-> Sum(budget, Len(list)),
         projects_count |-> Len(list)]

\* The four portfolio handlers: one read of the caller's projects, then the answer.
Portfolio(r) ==
    /\ req[r].op \in PortfolioOps
    /\ req[r].pc = "getUserProjects" /\ Running
    /\ \E ok \in Outcomes :
          LET list == getUserProjects(req[r].user, ok)
              body == IF req[r].op = "summary" THEN getPortfolioSummary(list)
                      ELSE IF req[r].op = "comparison"
                      THEN [projects |-> compareProjects(list), count |-> Len(list)]
                      ELSE IF req[r].op = "top-risks"
                      THEN [projects |-> getTopRiskProjects(list, 5),
                            count |-> Len(getTopRiskProjects(list, 5))]
                      ELSE ResourceAllocation(list)
          IN  /\ faults' = Fault(ok)
              /\ req' = Reply(r, Data(200, req[r].user, body))
    /\ UNCHANGED <<users, projects, history, clock, started, succ>>
    /\ UNCHANGED <<connVars, userEmails, notifications>>

(***************************************************************************)
(* POST /api/auth/register and POST /api/notifications/mark-read           *)
(***************************************************************************)
\* A register request arrives; the route has no preHandler.
StartRegister(r, email) ==
    /\ Running
    /\ Free(r)
    /\ \A q \in Req : Free(q) => ~(q < r)
    /\ started < MaxRequests
    /\ started' = started + 1
    /\ req' = [req EXCEPT ![r] = [IdleReq EXCEPT !.pc = "getUserByEmail",
                                               !.op = "register", !.email = email]]
    /\ UNCHANGED <<users, projects, history, clock, faults, succ>>
    /\ UNCHANGED <<connVars, userEmails, notifications>>

\* register lines 56-62: `if (existingUser) return 400`
RegisterGetUserByEmail(r) ==
    /\ req[r].pc = "getUserByEmail" /\ Running
    /\ \E ok \in Outcomes :
          /\ faults' = Fault(ok)
          /\ req' = IF IsSome(getUserByEmail(req[r].email, ok))
                    THEN [Reply(r, Resp(400, "Email already registered"))
                            EXCEPT ![r].email = req[r].email]
                    ELSE Goto(r, "createUser")
    /\ UNCHANGED <<users, projects, history, clock, started, succ>>
    /\ UNCHANGED <<connVars, userEmails, notifications>>

\* register lines 65-78: hashPassword, then createUser; `if (!userId) return 500`
RegisterCreateUser(r) ==
    /\ req[r].pc = "createUser" /\ Running
    /\ \E ok \in Outcomes :
          LET created == createUser(req[r].email, ok) IN
          /\ userEmails' = created.userEmails
          /\ faults' = Fault(ok)
          /\ req' = IF IsSome(created.id) THEN Goto(r, "getUserById")
                    ELSE [Reply(r, Resp(500, "Failed to create user"))
                            EXCEPT ![r].email = req[r].email]
    /\ UNCHANGED <<users, projects, history, clock, started, succ>>
    /\ UNCHANGED <<connVars, notifications>>

\* register lines 81-89: the new document is read back by its id and returned.
RegisterGetUserById(r) ==
    /\ req[r].pc = "getUserById" /\ Running
    /\ \E ok \in Outcomes :
          /\ faults' = Fault(ok)
          /\ req' = [Reply(r, IF ok THEN Data(201, "none",
                                              [email |-> toLowerCase(req[r].email)])
                              ELSE Resp(500, "Failed to retrieve created user"))
                       EXCEPT ![r].email = req[r].email]
    /\ UNCHANGED <<users, projects, history, clock, started, succ>>
    /\ UNCHANGED <<connVars, userEmails, notifications>>

\* mark-read: the ids of the body go to markNotificationsRead as they are.  The ids
\* are kept with the answer for the properties.
MarkRead(r) ==
    /\ req[r].op = "mark-read"
    /\ req[r].pc = "markNotificationsRead" /\ Running
    /\ \E ok \in Outcomes, notification_ids \in SUBSET (DOMAIN notifications) \ {{}} :
          LET marked == markNotificationsRead(notification_ids, ok) IN
          /\ notifications' = marked.notifications
          /\ faults' = Fault(ok)
          /\ req' = Reply(r, Data(200, req[r].user,
                                  [marked_read |-> marked.count,
                                   notification_ids |-> notification_ids]))
    /\ UNCHANGED <<users, projects, history, clock, started, succ>>
    /\ UNCHANGED <<connVars, userEmails>>


(***************************************************************************)
(* The store at the start: a free-plan user u1 whose project 1 has been    *)
(* analysed twice (two of the three scans are used), and a Pro user u2 who *)
(* owns the fresh project 2.                                               *)
(***************************************************************************)
RawA == CHOOSE raw \in RawResults : raw.progressPercentage = Some(10)
RawB == CHOOSE raw \in RawResults : raw.progressPercentage = Some(30)

\* The history entry that the analyze handler writes at `date` for this result.
Entry(pid, u, date, analysisResult, previousAnalysis) ==
    [project_id |-> pid, user_id |-> u, analysis_date |-> date,
     snapshot |-> Snapshot(analysisResult),
     deltas |-> ComputeDeltas(analysisResult, previousAnalysis),
     seen |-> IF IsSome(previousAnalysis) THEN Val(previousAnalysis).analysis_date ELSE 0]

\* u1's past analyses of project 1, oldest first, and the history after the first n.
PastResults == <<AnalysisResult(RawB), AnalysisResult(RawA), AnalysisResult(RawA)>>

RECURSIVE HistoryAfter(_)
HistoryAfter(n) ==
    IF n = 0 THEN <<>>
    ELSE LET before == HistoryAfter(n - 1)
         IN  Append(before, Entry(1, "u1", n, PastResults[n],
                                  IF n = 1 THEN None ELSE Some(before[n - 1])))

InitHistory == HistoryAfter(2)

InitScansUsed(u) == Cardinality({i \in 1..Len(InitHistory) : InitHistory[i].user_id = u})

\* What addAnalysis stores for a result.
AnalysisData(analysisResult) ==
    [progressPercentage |-> analysisResult.progressPercentage,
     project_data |-> analysisResult.project_data]

\* u1's project 1 after its first n analyses.
AnalysedProject(n) ==
    [NewProject("u1", "a") EXCEPT
        !.analyses = [i \in 1..n |-> AnalysisData(PastResults[i])],
        !.project_data = PastResults[n].project_data]

\* The store after u1's first n analyses.
StoreAfter(n) ==
    /\ users = [u \in User |-> IF u = "u1" THEN FreeSubscription(n) ELSE ProSubscription(0)]
    /\ projects = [p \in AllPId |-> IF p = 1 THEN AnalysedProject(n)
                                     ELSE IF p = 2 THEN NewProject("u2", "a")
                                     ELSE NoProject]
    /\ history = HistoryAfter(n)
    /\ clock = n

StoreInit == StoreAfter(2)

\* The two users have registered, and each has notifications.
AccountsInit ==
    /\ userEmails = <<"u1@x.io", "u2@x.io">>
    /\ notifications = [n \in {1, 2, 3} |->
                          [user_id |-> IF n = 1 THEN "u1" ELSE "u2", read |-> n = 3]]

\* A store in which neither user has a project yet.
CreateStoreInit ==
    /\ users = [u \in User |-> IF u = "u1" THEN FreeSubscription(0) ELSE ProSubscription(0)]
    /\ projects = [p \in AllPId |-> NoProject]
    /\ history = <<>>
    /\ clock = 0

ReqInit ==
    /\ req = [r \in Req |-> IdleReq]
    /\ started = 0
    /\ faults = 0
    /\ succ = [u \in User |-> 0]

AnalyzeInit == ConnInit /\ StoreInit /\ AccountsInit /\ ReqInit

AnalyzeNext ==
    \/ \E r \in Req : Respond(r)
    \/ \E r \in Req, u \in User, pid \in PId : Start(r, "analyze", u, pid)
    \/ \E r \in Req : PreHandler(r)
    \/ \E r \in Req : AnalyzeGetProject(r)
    \/ \E r \in Req : AnalyzeAdapterError(r)
    \/ \E r \in Req : AnalyzeAdapterResult(r)
    \/ \E r \in Req : AnalyzeAddAnalysis(r)
    \/ \E r \in Req : AnalyzeUpdateProject(r)
    \/ \E r \in Req : AnalyzeIncrementScanUsage(r)
    \/ \E r \in Req : AnalyzeGetLatestAnalysis(r)
    \/ \E r \in Req : AnalyzeCreateHistory(r)

SpecAnalyze == AnalyzeInit /\ [][AnalyzeNext]_vars

SpecConn == AnalyzeInit /\ [][ConnNext]_vars

\* Concurrent create-project requests.
CreateInit == ConnInit /\ CreateStoreInit /\ AccountsInit /\ ReqInit

CreateNext ==
    \/ \E r \in Req : Respond(r)
    \/ \E r \in Req, u \in User : Start(r, "create", u, 1)
    \/ \E r \in Req : PreHandler(r)
    \/ \E r \in Req : CreateCountProjects(r)
    \/ \E r \in Req : CreateInsert(r)
    \/ \E r \in Req : CreateGetProject(r)

SpecCreate == CreateInit /\ [][CreateNext]_vars

\* The operations on a project that write to the store.
WriteOps == {"analyze", "update", "delete"}

\* Every project-scoped operation on u2's project 2 by u1, who has used two or all
\* three of the free plan's scans, while the owner u2 changes the project.
AccessInit ==
    /\ ConnInit /\ AccountsInit
    /\ \E n \in {FreeScansLimit - 1, FreeScansLimit} : StoreAfter(n)
    /\ ReqInit

AccessNext ==
    \/ \E r \in Req : Respond(r)
    \/ \E r \in Req, op \in ProjectOps : Start(r, op, "u1", 2)
    \/ \E r \in Req, op \in WriteOps : Start(r, op, "u2", 2)
    \/ \E r \in Req : PreHandler(r)
    \/ \E r \in Req : GetProject(r)
    \/ \E r \in Req : GetProjectData(r)
    \/ \E r \in Req : GetAnalyses(r)
    \/ \E r \in Req : UpdateGetProject(r)
    \/ \E r \in Req : UpdateUpdateProject(r)
    \/ \E r \in Req : UpdateGetUpdated(r)
    \/ \E r \in Req : DeleteGetProject(r)
    \/ \E r \in Req : DeleteDeleteProject(r)
    \/ \E r \in Req : AnalyzeGetProject(r)
    \/ \E r \in Req : AnalyzeAdapterError(r)
    \/ \E r \in Req : AnalyzeAdapterResult(r)
    \/ \E r \in Req : AnalyzeAddAnalysis(r)
    \/ \E r \in Req : AnalyzeUpdateProject(r)
    \/ \E r \in Req : AnalyzeIncrementScanUsage(r)
    \/ \E r \in Req : AnalyzeGetLatestAnalysis(r)
    \/ \E r \in Req : AnalyzeCreateHistory(r)
    \/ \E r \in Req : HistoryGetProject(r)

SpecAccess == AccessInit /\ [][AccessNext]_vars

\* The operations the README documents as Pro features, and the analyses that feed
\* them.
ProOps == {"trends", "forecast"} \cup PortfolioOps

ProNext ==
    \/ \E r \in Req : Respond(r)
    \/ \E r \in Req, op \in {"trends", "forecast"}, u \in User, pid \in PId :
          Start(r, op, u, pid)
    \/ \E r \in Req, op \in PortfolioOps, u \in User : Start(r, op, u, 1)
    \/ \E r \in Req : PreHandler(r)
    \/ \E r \in Req : HistoryGetProject(r)
    \/ \E r \in Req : Trends(r)
    \/ \E r \in Req : Forecast(r)
    \/ \E r \in Req : Portfolio(r)

SpecPro == AnalyzeInit /\ [][ProNext]_vars

\* The writing operations invoked by the owner of project 1, which has history.
WriteNext ==
    \/ \E r \in Req : Respond(r)
    \/ \E r \in Req, op \in WriteOps : Start(r, op, "u1", 1)
    \/ \E r \in Req : PreHandler(r)
    \/ \E r \in Req : UpdateGetProject(r)
    \/ \E r \in Req : UpdateUpdateProject(r)
    \/ \E r \in Req : UpdateGetUpdated(r)
    \/ \E r \in Req : DeleteGetProject(r)
    \/ \E r \in Req : DeleteDeleteProject(r)
    \/ \E r \in Req : AnalyzeGetProject(r)
    \/ \E r \in Req : AnalyzeAdapterError(r)
    \/ \E r \in Req : AnalyzeAdapterResult(r)
    \/ \E r \in Req : AnalyzeAddAnalysis(r)
    \/ \E r \in Req : AnalyzeUpdateProject(r)
    \/ \E r \in Req : AnalyzeIncrementScanUsage(r)
    \/ \E r \in Req : AnalyzeGetLatestAnalysis(r)
    \/ \E r \in Req : AnalyzeCreateHistory(r)

SpecWrite == AnalyzeInit /\ [][WriteNext]_vars

\* Trends and forecast over histories of every length up to MaxHistory.  Project 2
\* of the Pro user u2 has been analysed n times; the adapter's answers are drawn from
\* ForecastRaws: the last three analyses freely, the earlier ones all alike.  The
\* handlers only read, so one request runs at a time.
MaxHistory == 11

ForecastRaw(progress, budgetSpentPct) ==
    [progressPercentage |-> Some(progress), delaysFlagged |-> None,
     manpower |-> None,
     financials |-> Some([budgetTotal |-> Some(1000),
                          budgetSpent |-> Some(budgetSpentPct),
                          costOverrun |-> None])]
ForecastRaws ==
    {ForecastRaw(10, 45), ForecastRaw(40, 10), ForecastRaw(100, 10), ForecastRaw(120, 0)}

\* The adapter's answer to the i-th of n analyses.
RawOf(i, n, base, tail) ==
    IF n <= 3 THEN tail[i]
    ELSE IF i > n - 3 THEN tail[i - (n - 3)] ELSE base

RECURSIVE HistoryOf(_, _, _, _)
HistoryOf(k, n, base, tail) ==
    IF k = 0 THEN <<>>
    ELSE LET before == HistoryOf(k - 1, n, base, tail)
         IN  Append(before, Entry(2, "u2", k, AnalysisResult(RawOf(k, n, base, tail)),
                                  IF k = 1 THEN None ELSE Some(before[k - 1])))

ForecastStoreInit ==
    \E n \in 0..MaxHistory, base \in ForecastRaws, tail \in [1..3 -> ForecastRaws] :
       /\ users = [u \in User |-> IF u = "u1" THEN FreeSubscription(0)
                                  ELSE ProSubscription(n)]
       /\ projects =
            [p \in AllPId |->
               IF p = 1 THEN NewProject("u1", "a")
               ELSE IF p = 2 /\ n = 0 THEN NewProject("u2", "a")
               ELSE IF p = 2
               THEN [NewProject("u2", "a") EXCEPT
                       !.analyses = [i \in 1..n |->
                                       AnalysisData(AnalysisResult(RawOf(i, n, base, tail)))],
                       !.project_data =
                            AnalysisResult(RawOf(n, n, base, tail)).project_data]
               ELSE NoProject]
       /\ history = HistoryOf(n, n, base, tail)
       /\ clock = n

ForecastInit == ConnInit /\ ForecastStoreInit /\ AccountsInit /\ ReqInit

StartAlone(r, op, u, pid) == (\A q \in Req : Free(q)) /\ Start(r, op, u, pid)

ForecastNext ==
    \/ \E r \in Req : Respond(r)
    \/ \E r \in Req, op \in {"trends", "forecast"} : StartAlone(r, op, "u2", 2)
    \/ \E r \in Req : PreHandler(r)
    \/ \E r \in Req : HistoryGetProject(r)
    \/ \E r \in Req : Trends(r)
    \/ \E r \in Req : Forecast(r)

SpecForecast == ForecastInit /\ [][ForecastNext]_vars

(***************************************************************************)
(* The trends handler over histories whose entries may carry the same      *)
(* analysis_date: `new Date()` of two analyze requests that run within the *)
(* same instant.  Dates are counted in days.                               *)
(***************************************************************************)
MaxPoints == 3
TrendDays == {1, 2, 11}
TrendRaws == {ForecastRaw(10, 45), ForecastRaw(30, 10), ForecastRaw(40, 10)}

RECURSIVE HistoryAt(_, _, _)
HistoryAt(k, dates, raws) ==
    IF k = 0 THEN <<>>
    ELSE LET before == HistoryAt(k - 1, dates, raws)
         IN  Append(before, Entry(2, "u2", dates[k], AnalysisResult(raws[k]),
                                  IF k = 1 THEN None ELSE Some(before[k - 1])))

TrendsStoreInit ==
    \E n \in 0..MaxPoints, dates \in [1..MaxPoints -> TrendDays],
       raws \in [1..MaxPoints -> TrendRaws] :
       /\ \A i, j \in 1..MaxPoints : i <= j => dates[i] <= dates[j]
       /\ users = [u \in User |-> IF u = "u1" THEN FreeSubscription(0)
                                  ELSE ProSubscription(n)]
       /\ projects =
            [p \in AllPId |->
               IF p = 1 THEN NewProject("u1", "a")
               ELSE IF p = 2 /\ n = 0 THEN NewProject("u2", "a")
               ELSE IF p = 2
               THEN [NewProject("u2", "a") EXCEPT
                       !.analyses = [i \in 1..n |-> AnalysisData(AnalysisResult(raws[i]))],
                       !.project_data = AnalysisResult(raws[n]).project_data]
               ELSE NoProject]
       /\ history = HistoryAt(n, dates, raws)
       /\ clock = IF n = 0 THEN 0 ELSE dates[n]

TrendsInit == ConnInit /\ TrendsStoreInit /\ AccountsInit /\ ReqInit

TrendsNext ==
    \/ \E r \in Req : Respond(r)
    \/ \E r \in Req : StartAlone(r, "trends", "u2", 2)
    \/ \E r \in Req : PreHandler(r)
    \/ \E r \in Req : HistoryGetProject(r)
    \/ \E r \in Req : Trends(r)

SpecTrends == TrendsInit /\ [][TrendsNext]_vars

(***************************************************************************)
(* The portfolio handlers over the projects 2 and 3 of the Pro user u2,    *)
(* each either never analysed or analysed once.                            *)
(***************************************************************************)
PortfolioRaw(progress, delays, safetyScore, budgetTotal, budgetSpentPct) ==
    [progressPercentage |-> Some(progress), delaysFlagged |-> Some(delays),
     manpower |-> Some([total |-> Some(5), safetyScore |-> Some(safetyScore)]),
     financials |-> Some([budgetTotal |-> Some(budgetTotal),
                          budgetSpent |-> Some(budgetSpentPct),
                          costOverrun |-> None])]
PortfolioRaws ==
    {PortfolioRaw(80, 0, 65, 1000, 45), PortfolioRaw(80, 0, 90, 1000, 45),
     PortfolioRaw(40, 0, 90, 100, 70), PortfolioRaw(40, 3, 90, 1000, 5),
     PortfolioRaw(40, 0, 90, 1000, 10)}

PortfolioStoreInit ==
    \E raws \in [{2, 3} -> {None} \cup {Some(raw) : raw \in PortfolioRaws}] :
       LET analysed == {p \in {2, 3} : IsSome(raws[p])}
           entry(p, date) == Entry(p, "u2", date, AnalysisResult(Val(raws[p])), None)
       IN  /\ users = [u \in User |-> IF u = "u1" THEN FreeSubscription(0)
                                      ELSE ProSubscription(Cardinality(analysed))]
           /\ projects =
                [p \in AllPId |->
                   IF p = 1 THEN NewProject("u1", "a")
                   ELSE IF p \in analysed
                   THEN [NewProject("u2", "a") EXCEPT
                           !.analyses = <<AnalysisData(AnalysisResult(Val(raws[p])))>>,
                           !.project_data = AnalysisResult(Val(raws[p])).project_data]
                   ELSE IF p \in {2, 3} THEN NewProject("u2", "a")
                   ELSE NoProject]
           /\ history = IF analysed = {2, 3} THEN <<entry(2, 1), entry(3, 2)>>
                        ELSE IF analysed = {2} THEN <<entry(2, 1)>>
                        ELSE IF analysed = {3} THEN <<entry(3, 1)>>
                        ELSE <<>>
           /\ clock = Cardinality(analysed)

PortfolioInit == ConnInit /\ PortfolioStoreInit /\ AccountsInit /\ ReqInit

PortfolioNext ==
    \/ \E r \in Req : Respond(r)
    \/ \E r \in Req, op \in PortfolioOps : Start(r, op, "u2", 2)
    \/ \E r \in Req : PreHandler(r)
    \/ \E r \in Req : Portfolio(r)

SpecPortfolio == PortfolioInit /\ [][PortfolioNext]_vars

(***************************************************************************)
(* The normalizer alone: analyzeImage has parsed the adapter's answer      *)
(* (line 110) and calls buildProjectData on it (line 113).                 *)
(***************************************************************************)
\* Parsed adapter answers: each field absent, of the type the prompt asks for, or of
\* another type.  Sub-objects carry their fields only when they are objects; an array
\* carries whether it holds a null element.
NormalizeRaws ==
    LET Undef == Js("undefined", 0)
        Num(n) == Js("number", n)
        Text == Js("string", 3)
        Manpower(t, total, safetyScore) ==
            [t |-> t, n |-> 0, total |-> total, safetyScore |-> safetyScore]
        Financials(t, budgetTotal, budgetSpent, costOverrun) ==
            [t |-> t, n |-> 0, budgetTotal |-> budgetTotal, budgetSpent |-> budgetSpent,
             costOverrun |-> costOverrun]
        Materials(t, n, nulls) == [t |-> t, n |-> n, nulls |-> nulls]
    IN  [progressPercentage : {Undef, Num(0), Num(50), Text},
         delaysFlagged : {Undef, Num(2)},
         manpower : {Manpower("undefined", Undef, Undef),
                     Manpower("string", Undef, Undef),
                     Manpower("object", Num(5), Num(80)),
                     Manpower("object", Text, Undef)},
         financials : {Financials("undefined", Undef, Undef, Undef),
                       Financials("object", Num(1000), Num(45), Num(12)),
                       Financials("object", Num(1000), Num(150), Undef),
                       Financials("object", Num(1000), Num(-20), Num(-150)),
                       Financials("object", Text, Num(45), Undef)},
         materials : {Materials("undefined", 0, FALSE), Materials("array", 0, FALSE),
                      Materials("array", 1, FALSE), Materials("array", 1, TRUE),
                      Materials("string", 6, FALSE)}]

\* Request 1 is inside analyzeImage with the parsed answer in `prev`.
NormalizeInit ==
    /\ ConnInit /\ StoreInit /\ AccountsInit
    /\ \E raw \in NormalizeRaws :
          req = [r \in Req |->
                   IF r = 1 THEN [IdleReq EXCEPT !.pc = "buildProjectData",
                                                 !.op = "analyze", !.prev = Some(raw)]
                   ELSE IdleReq]
    /\ started = 1
    /\ faults = 0
    /\ succ = [u \in User |-> 0]

\* line 113: `const projectData = this.buildProjectData(result, project)`
Normalize(r) ==
    /\ req[r].pc = "buildProjectData"
    /\ req' = [req EXCEPT ![r] = [@ EXCEPT !.pc = "built",
                                           !.result =
                                               Some(buildProjectData(Val(req[r].prev)))]]
    /\ UNCHANGED <<users, projects, history, clock, started, faults, succ>>
    /\ UNCHANGED <<connVars, userEmails, notifications>>

SpecNormalize == NormalizeInit /\ [][\E r \in Req : Normalize(r)]_vars

\* Concurrent register and mark-read requests.
SpecAccounts ==
    AnalyzeInit
    /\ [][\/ \E r \in Req : Respond(r)
          \/ \E r \in Req, email \in {"a@x.io", "A@x.io", "u1@x.io"} :
                StartRegister(r, email)
          \/ \E r \in Req, u \in User : Start(r, "mark-read", u, 1)
          \/ \E r \in Req : PreHandler(r)
          \/ \E r \in Req : RegisterGetUserByEmail(r)
          \/ \E r \in Req : RegisterCreateUser(r)
          \/ \E r \in Req : RegisterGetUserById(r)
          \/ \E r \in Req : MarkRead(r)]_vars

(***************************************************************************)
(* Properties.                                                             *)
(***************************************************************************)
Quiescent == \A r \in Req : req[r].pc \in {"idle", "done"}
Entries == 1..Len(history)
Written == {i \in Entries : i > Len(InitHistory)}   \* entries written by a request

\* C1: in the onRequest hook at most one connectMongoDB attempt is in flight at any
\* time, and every request that waits for an unfinished attempt waits for the one
\* pending attempt that connectionPromise holds.
C1_AtMostOneAttempt ==
    /\ inflight <= 1
    /\ \A h \in HookReq :
          (hook[h].pc = "await" /\ hook[h].awaits \notin settled)
             => (inflight = 1 /\ hook[h].awaits = connectionPromise)

C1_Witness ==
    /\ inflight = 1
    /\ attempts > 1
    /\ \E h1, h2 \in HookReq :
          /\ h1 # h2
          /\ hook[h1].pc = "await" /\ hook[h1].awaits = connectionPromise
          /\ hook[h2].pc = "await" /\ hook[h2].awaits = connectionPromise
          /\ connectionPromise \notin settled

\* C2: when analyzeImage returns an error, the analyze request is answered 400 with
\* the adapter's error text, and that step leaves the projects (analyses and
\* project_data), the history collection and every scans_used counter unchanged.
C2_AdapterErrorLeavesStore ==
    [][\A r \in Req :
          (req[r].pc = "analyzeImage" /\ req'[r].pc # "analyzeImage"
                                      /\ req'[r].result = None)
             => /\ req'[r].pc = "done"
                /\ req'[r].resp.status = 400
                /\ req'[r].resp.detail \in AdapterErrors
                /\ req'[r].resp.data = None
                /\ projects' = projects
                /\ history' = history
                /\ users' = users]_vars

C2_Witness ==
    \E r \in Req :
       /\ req[r].pc = "done" /\ req[r].op = "analyze"
       /\ req[r].resp.status = 400 /\ req[r].resp.detail \in AdapterErrors

\* C3 (as claimed): whenever no analyze request is in progress, every user's
\* scans_used is its initial value plus the number of analyze requests of that user
\* answered with the success response.
C3_ScansUsedCountsSuccesses ==
    Quiescent => \A u \in User : users[u].scans_used = InitScansUsed(u) + succ[u]

\* C4 (as claimed): a free-plan user's scans_used never exceeds scans_limit.
C4_FreeScansWithinLimit ==
    \A u \in User :
       users[u].plan = "free" => users[u].scans_used <= users[u].scans_limit

\* The entry that getLatestAnalysis had returned to the writer of entry i.
SeenBy(i) ==
    CHOOSE j \in Entries :
       /\ history[j].project_id = history[i].project_id
       /\ history[j].analysis_date = history[i].seen

\* The entry of the same project that immediately precedes entry i in
\* analysis_date order, if there is one.
Earlier(i) ==
    {j \in Entries : /\ history[j].project_id = history[i].project_id
                     /\ history[j].analysis_date < history[i].analysis_date}
Preceding(i) ==
    CHOOSE j \in Earlier(i) :
       \A k \in Earlier(i) : history[k].analysis_date <= history[j].analysis_date

\* C5 (as claimed): the number of projects a user owns never exceeds the user's
\* subscription.max_projects.
C5_ProjectsWithinLimit ==
    \A u \in User : Cardinality(ProjectsOf(u)) <= users[u].max_projects

\* A request in progress on a project that exists and belongs to another user.
NonOwner(r) ==
    /\ req[r].pc \notin {"idle", "done"}
    /\ req[r].op \in ProjectOps
    /\ projects[req[r].pid].exists
    /\ projects[req[r].pid].user_id # req[r].user

\* What C6 asks of a step of such a request, with the set of statuses it may end in:
\* the step leaves the users, the projects and the history unchanged, and when it ends
\* the request the response carries no body.  Status 401 is requireAuth's answer when
\* the user lookup fails: that caller is not authenticated.
NonOwnerStep(r, statuses) ==
    (NonOwner(r) /\ req'[r] # req[r])
       => /\ users' = users
          /\ projects' = projects
          /\ history' = history
          /\ req'[r].pc = "done" =>
                /\ req'[r].resp.status \in statuses \cup {401}
                /\ req'[r].resp.status = 401 => req[r].pc = "auth"
                /\ req'[r].resp.status = 403 =>
                      /\ req[r].op = "analyze" /\ req[r].pc = "auth"
                      /\ ScanLimitReached(users[req[r].user])
                /\ req'[r].resp.data = None
                /\ req'[r].resp.owner = "none"

\* Every response with a body was built from the caller's own documents.
OwnDataOnly ==
    \A r \in Req : req[r].resp.owner \in {"none", req[r].user}

\* C6 (amended): every project-scoped operation invoked by an authenticated user who
\* is not the project's owner returns 404, or 403 when it is analyze and the caller
\* is on the free plan with scans_used >= scans_limit, and leaves the project, the
\* history and every scans_used unchanged; no response carries another user's data.
C6_NonOwnerRejected ==
    [][/\ \A r \in Req : NonOwnerStep(r, {404, 403})
       /\ OwnDataOnly']_vars

\* C6 (as claimed): the same with 404 as the only answer.
C6_NonOwnerAlways404 ==
    [][/\ \A r \in Req : NonOwnerStep(r, {404})
       /\ OwnDataOnly']_vars

\* u1 has asked to delete u2's project 2 and has been answered 404; the project is
\* still there.
C6_Witness ==
    \E r \in Req :
       /\ req[r].pc = "done" /\ req[r].op = "delete"
       /\ req[r].user = "u1" /\ req[r].pid = 2
       /\ req[r].resp.status = 404
       /\ projects[2].exists /\ projects[2].user_id = "u2"

\* C7 (as claimed): a request for a Pro feature by a user whose plan is 'free' is not
\* answered with the result.
C7_ProNotServedToFree ==
    \A r \in Req :
       (req[r].pc = "done" /\ req[r].op \in ProOps /\ users[req[r].user].plan = "free")
          => (req[r].resp.status # 200 /\ req[r].resp.data = None)

\* C8: the earliest history entry of a project, and every entry written by an
\* analysis that found no earlier entry, has no delta record; an entry written by
\* an analysis that found an earlier entry has a delta record, whose progress is 0
\* when its progressPercentage is identical to that of the entry found.
C8_FirstNoDeltaSameProgressZero ==
    \A i \in Entries :
       /\ Earlier(i) = {} => history[i].deltas = None
       /\ history[i].seen = 0 => history[i].deltas = None
       /\ history[i].seen # 0 =>
             /\ IsSome(history[i].deltas)
             /\ (history[i].snapshot.progressPercentage
                    = history[SeenBy(i)].snapshot.progressPercentage)
                   => Val(history[i].deltas).progress = 0

\* Project 2 has received its first entry, without deltas, and then a second one
\* with the progress of the first and deltas.progress = 0.
C8_Witness ==
    /\ \E i \in Written : history[i].project_id = 2 /\ history[i].deltas = None
    /\ \E i \in Written :
          /\ history[i].project_id = 2
          /\ Earlier(i) # {}
          /\ history[i].snapshot.progressPercentage
               = history[Preceding(i)].snapshot.progressPercentage
          /\ IsSome(history[i].deltas)
          /\ Val(history[i].deltas).progress = 0

\* C9 (as claimed): in an entry that has a delta record, each of budget_spent, workers
\* and safety_score is present exactly when the new and the prior snapshot both
\* expose the metric (0 counts as exposed), and is then new minus prior.
Exposed(snapshot, part, field) == IsSome(Field(snapshot[part], field))
ClaimedDelta(i, part, field) ==
    LET new == history[i].snapshot
        old == history[SeenBy(i)].snapshot
    IN  IF Exposed(new, part, field) /\ Exposed(old, part, field)
        THEN Some(Val(new[part])[field] - Val(old[part])[field])
        ELSE None

C9_DeltaPresentIffBothExposed ==
    \A i \in Entries :
       IsSome(history[i].deltas) =>
          /\ Val(history[i].deltas).budget_spent = ClaimedDelta(i, "financials", "budgetSpent")
          /\ Val(history[i].deltas).workers = ClaimedDelta(i, "manpower", "total")
          /\ Val(history[i].deltas).safety_score = ClaimedDelta(i, "manpower", "safetyScore")

\* C10 (as claimed): in every entry that has a delta record, deltas.progress is the
\* entry's progressPercentage minus that of the entry immediately preceding it in
\* analysis_date order for the same project.
C10_DeltaAgainstPreceding ==
    \A i \in Entries :
       IsSome(history[i].deltas) =>
          /\ Earlier(i) # {}
          /\ Val(history[i].deltas).progress
               = history[i].snapshot.progressPercentage
                   - history[Preceding(i)].snapshot.progressPercentage

\* C11 (as claimed): an analyze request in which addAnalysis or the updateProject
\* that stores project_data reported failure is answered with a failure response,
\* not with the success response carrying the analysis.
C11_SaveFailureFailsRequest ==
    \A r \in Req :
       (req[r].pc = "done" /\ req[r].op = "analyze" /\ req[r].saveFailed)
          => (req[r].resp.status >= 400 /\ req[r].resp.data = None)

\* C12 (as claimed): the step of a portfolio summary, trends or forecast request in
\* which a store read fails does not answer the request with a success response.
StoreReadOps == {"summary", "trends", "forecast"}
C12_ReadFailureFailsClosed ==
    [][\A r \in Req :
          (/\ req[r].op \in StoreReadOps
           /\ req[r].pc \notin {"idle", "done"}
           /\ req'[r] # req[r]
           /\ faults' # faults)
             => ~(req'[r].pc = "done" /\ req'[r].resp.status < 400)]_vars

\* C13: when the history write of an analyze request fails, that step answers the
\* request with the success response carrying the normalized project data and
\* leaves the projects (analyses, project_data) and every scans_used as they are.
C13_HistoryFailureKeepsResult ==
    [][\A r \in Req :
          (/\ req[r].pc = "createAnalysisHistory"
           /\ req'[r] # req[r]
           /\ history' = history)
             => /\ faults' # faults
                /\ req'[r].pc = "done"
                /\ req'[r].resp.status = 200
                /\ req'[r].resp.data = Some(Val(Val(req[r].result).project_data))
                /\ projects' = projects
                /\ users' = users]_vars

\* An analyze request whose saves and increment succeeded has been answered 200
\* although its history entry was not written: the history is as at the start, the
\* analysis is in the project and the scan is counted.
C13_Witness ==
    \E r \in Req :
       /\ req[r].pc = "done" /\ req[r].op = "analyze"
       /\ req[r].resp.status = 200 /\ ~req[r].saveFailed
       /\ succ[req[r].user] = 1
       /\ history = InitHistory
       /\ users[req[r].user].scans_used = InitScansUsed(req[r].user) + 1
       /\ req[r].user = "u1" /\ req[r].pid = 1
       /\ projects[1].project_data = req[r].resp.data
       /\ Len(projects[1].analyses) = Len(AnalysedProject(2).analyses) + 1

\* C14: the history is append-only and its entries are immutable: every step of
\* analyze, project update and project delete leaves each entry that exists in
\* place with the same snapshot, deltas and analysis_date.
C14_HistoryAppendOnly ==
    [][/\ Len(history') >= Len(history)
       /\ \A i \in 1..Len(history) : history'[i] = history[i]]_vars

\* Project 1 has been analysed once more and then deleted; its history entries, the
\* new one and the two from before, are still there.
C14_Witness ==
    /\ ~projects[1].exists
    /\ Len(history) = Len(InitHistory) + 1
    /\ \A i \in 1..Len(InitHistory) : history[i] = InitHistory[i]
    /\ \A i \in 1..Len(history) : history[i].project_id = 1

(***************************************************************************)
(* Trends and forecast, stated against the history collection itself.      *)
(***************************************************************************)
\* The entries of a project in ascending analysis_date order, and the k latest of
\* them in that order.
Chronological(pid) ==
    [k \in 1..Cardinality(EntriesOf(pid)) |->
        history[CHOOSE i \in EntriesOf(pid) :
                   Cardinality({j \in EntriesOf(pid) :
                                  history[j].analysis_date < history[i].analysis_date})
                     = k - 1]]
MostRecent(pid, k) ==
    LET s == Chronological(pid)
    IN  SubSeq(s, Len(s) - Min(k, Len(s)) + 1, Len(s))

\* The regression series over a sequence of entries: x = 0..N-1, the entry's progress
\* and its budget spent (0 when the snapshot has no financials).
SeriesOf(s) ==
    [i \in 1..Len(s) |->
        [x |-> i - 1,
         progress |-> s[i].snapshot.progressPercentage,
         budget |-> IF IsSome(s[i].snapshot.financials)
                    THEN Val(s[i].snapshot.financials).budgetSpent ELSE 0]]

ForecastWindow == 10

\* The requests that have just been answered with a forecast, and the answer.
ForecastAnswers ==
    {r \in Req : req[r].pc = "done" /\ req[r].op = "forecast" /\ req[r].resp.status = 200}
Answer(r) == Val(req[r].resp.data)

\* C15: a forecast request that reaches the history read is answered 400 without a
\* body when the project has 0 or 1 history entries, and, the read having succeeded,
\* 200 with a forecast object when it has 2 or more; it is never answered otherwise.
C15_ForecastNeedsTwoEntries ==
    [][\A r \in Req :
          (/\ req[r].op = "forecast"
           /\ req[r].pc = "getAnalysisHistory"
           /\ req'[r].pc = "done")
             => LET n == Cardinality(EntriesOf(req[r].pid))
                    resp == req'[r].resp
                IN  /\ resp.status \in {200, 400}
                    /\ n < 2 => (resp.status = 400 /\ resp.data = None)
                    /\ (n >= 2 /\ faults' = faults)
                          => /\ resp.status = 200
                             /\ IsSome(resp.data)
                             /\ Val(resp.data).based_on = Min(n, ForecastWindow)]_vars

\* A forecast on a project with exactly one history entry has been answered 400.
C15_Witness ==
    \E r \in Req :
       /\ req[r].pc = "done" /\ req[r].op = "forecast"
       /\ req[r].resp.status = 400
       /\ faults = 0
       /\ Cardinality(EntriesOf(req[r].pid)) = 1

\* The sign of the regression slope of a series is that of
\* n * Sxy - Sx * Sy = sum over i < j of (x_j - x_i) * (y_j - y_i).
SlopeSign(series) ==
    Sum([j \in 1..Len(series) |->
            Sum([i \in 1..Len(series) |->
                    IF i < j
                    THEN (series[j].x - series[i].x)
                           * (series[j].progress - series[i].progress)
                    ELSE 0],
                Len(series))],
        Len(series))

\* C16 (as claimed): a forecast reports 'Unable to estimate' (no estimate) exactly
\* when the slope of the regression over its series is <= 0, and otherwise an
\* estimate whose day count is a positive integer.
C16_EstimateIffPositiveSlope ==
    \A r \in ForecastAnswers :
       /\ Answer(r).completion_date_estimate = None <=> SlopeSign(Answer(r).series) <= 0
       /\ IsSome(Answer(r).completion_date_estimate)
             => Val(Answer(r).completion_date_estimate) >= 1

\* C17 (as claimed): the regression series is built from the oldest N <= 10 entries
\* of the project, oldest first, with x = 0..N-1.
C17_SeriesFromOldest ==
    \A r \in ForecastAnswers :
       Answer(r).series = SeriesOf(Take(Chronological(req[r].pid), ForecastWindow))

\* C17 (amended): the regression series is built from the most recent N <= 10
\* entries of the project, oldest of them first, with x = 0..N-1.
C17_SeriesFromMostRecent ==
    \A r \in ForecastAnswers :
       Answer(r).series = SeriesOf(MostRecent(req[r].pid, ForecastWindow))

\* A forecast has been answered for a project with more than 10 entries whose
\* series is not that of the 10 oldest entries.
C17_Witness ==
    \E r \in ForecastAnswers :
       /\ Cardinality(EntriesOf(req[r].pid)) > ForecastWindow
       /\ Len(Answer(r).series) = ForecastWindow
       /\ Answer(r).series # SeriesOf(Take(Chronological(req[r].pid), ForecastWindow))

\* The recent progress gain as claimed: the latest entry's progress minus that of
\* the third-latest entry of the series, or of the oldest when the series has fewer
\* than three entries; and the risk level claimed for a gain.
ClaimedGain(series) ==
    LET n == Len(series)
    IN  series[n].progress
          - (IF n >= 3 THEN series[n - 2].progress ELSE series[1].progress)
ClaimedRisk(gain) ==
    IF gain < 5 THEN "high" ELSE IF gain < 10 THEN "medium" ELSE "low"

\* C18 (as claimed): the forecast's risk level is the one of the recent progress
\* gain of its series.
C18_RiskFromRecentGain ==
    \A r \in ForecastAnswers :
       Answer(r).risk_level = ClaimedRisk(ClaimedGain(Answer(r).series))

\* The projected final budget (latest budget spent / latest progress * 100, or 0 when
\* the progress is not positive) exceeds 110% of the project's total budget.
ClaimedBudgetOverrun(series, budgetTotal) ==
    LET last == series[Len(series)]
    IN  /\ last.progress > 0
        /\ 100 * 100 * last.budget > 110 * budgetTotal * last.progress

\* C19 (as claimed): the recommendations are the resourcing advice exactly when the
\* recent gain < 5, the cost-control advice exactly when the projected final budget
\* exceeds 110% of the project's total budget, the stakeholder-review advice exactly
\* when the risk level is 'high', and nothing else.
C19_Recommendations ==
    \A r \in ForecastAnswers :
       LET series == Answer(r).series
           latest == MostRecent(req[r].pid, 1)[1].snapshot
           budgetTotal == IF IsSome(latest.financials)
                          THEN Val(latest.financials).budgetTotal ELSE 0
       IN  Answer(r).recommendations
             = (IF ClaimedGain(series) < 5 THEN {"velocity"} ELSE {})
               \cup (IF ClaimedBudgetOverrun(series, budgetTotal) THEN {"budget"} ELSE {})
               \cup (IF ClaimedRisk(ClaimedGain(series)) = "high" THEN {"review"} ELSE {})

\* C20: a trends request whose history read succeeded is answered 200 with the
\* min(limit, count) entries of the project that have the greatest analysis_date, in
\* ascending analysis_date order, and data_points is their number; when the project
\* has no history the answer is data_points 0, an empty list and a message, with no
\* velocity or other computed value.
C20_TrendsMostRecentAscending ==
    [][\A r \in Req :
          (/\ req[r].op = "trends"
           /\ req[r].pc = "getAnalysisHistory"
           /\ req'[r].pc = "done"
           /\ faults' = faults)
             => /\ req'[r].resp.status = 200
                /\ IsSome(req'[r].resp.data)
                /\ LET d == Val(req'[r].resp.data)
                       own == EntriesOf(req[r].pid)
                       \* the number of entries of the project later than entry e
                       Later(e) == Cardinality({j \in own : history[j].analysis_date
                                                             > history[e].analysis_date})
                   IN  IF own = {}
                       THEN /\ d.data_points = 0
                            /\ d.trends = <<>>
                            /\ DOMAIN d = {"limit", "metric", "data_points",
                                            "message", "trends"}
                       ELSE /\ d.data_points = Min(d.limit, Cardinality(own))
                            /\ Len(d.trends) = d.data_points
                            /\ \A i \in 1..Len(d.trends) :
                                  \E e \in own :
                                     /\ Later(e) = Len(d.trends) - i
                                     /\ d.trends[i].date = history[e].analysis_date
                                     /\ d.trends[i].progress
                                          = history[e].snapshot.progressPercentage]_vars

\* A trends request with limit 2 on a project with more than two entries has been
\* answered with its two latest entries, the older of the two first.
C20_Witness ==
    \E r \in Req :
       /\ req[r].pc = "done" /\ req[r].op = "trends" /\ req[r].resp.status = 200
       /\ Cardinality(EntriesOf(req[r].pid)) > 2
       /\ Answer(r).limit = 2
       /\ Answer(r).data_points = 2
       /\ Answer(r).trends[1].date = Cardinality(EntriesOf(req[r].pid)) - 1
       /\ Answer(r).trends[2].date = Cardinality(EntriesOf(req[r].pid))

\* The requests that have just been answered with a non-empty trend list.
TrendAnswers ==
    {r \in Req : /\ req[r].pc = "done" /\ req[r].op = "trends"
                 /\ req[r].resp.status = 200
                 /\ Answer(r).data_points > 0}

\* C21: the velocity of a trends answer, in hundredths of a percent per day, is the
\* progress of the last returned entry minus that of the first returned entry,
\* divided by the days elapsed between the two (to the nearest hundredth, the
\* precision of the response), and 0 when fewer than two entries are returned or no
\* time has elapsed; entries of day 1 with 10 and of day 11 with 30 give 2.00.
C21_VelocityIsGainPerDay ==
    \A r \in TrendAnswers :
       LET d == Answer(r)
           n == Len(d.trends)
           gain == d.trends[n].progress - d.trends[1].progress
           days == d.trends[n].date - d.trends[1].date
           off == 100 * gain - d.velocity * days
       IN  /\ (n < 2 \/ days = 0) => d.velocity = 0
           /\ (n >= 2 /\ days > 0) => (2 * off <= days /\ 2 * (0 - off) <= days)
           /\ (n = 2 /\ days = 10 /\ gain = 20) => d.velocity = 200

\* A trends answer over two entries with progress 10 and 30 that are ten days apart
\* reports 2.00.
C21_Witness ==
    \E r \in TrendAnswers :
       LET d == Answer(r) IN
       /\ Len(d.trends) = 2
       /\ d.trends[2].date - d.trends[1].date = 10
       /\ d.trends[1].progress = 10 /\ d.trends[2].progress = 30
       /\ d.velocity = 200

(***************************************************************************)
(* The portfolio answers, stated against the stored project data.          *)
(***************************************************************************)
\* The requests that have just been answered by portfolio operation `op` from a read
\* that returned the caller's projects, and those projects, newest first.
PortfolioAnswers(op) ==
    {r \in Req : /\ req[r].pc = "done" /\ req[r].op = op /\ req[r].resp.status = 200
                 /\ (IF op = "summary" THEN Answer(r).total_projects ELSE Answer(r).count)
                       = Cardinality(ProjectsOf(req[r].user))}
ListOf(r) == getUserProjects(req[r].user, TRUE)

\* The status as claimed for a project: 'delayed' if delaysFlagged > 2, else 'at_risk'
\* if progress < 50 and more than 60 percent of the total budget is spent, else
\* 'on_track'; a project without data counts as all zeros.
ClaimedStatus(pid) ==
    LET data == projects[pid].project_data
        delays == IF IsSome(data) THEN Val(data).delaysFlagged ELSE 0
        progress == IF IsSome(data) THEN Val(data).progressPercentage ELSE 0
        budgetTotal == IF IsSome(data) THEN Val(data).financials.budgetTotal ELSE 0
        budgetSpent == IF IsSome(data) THEN Val(data).financials.budgetSpent ELSE 0
    IN  IF delays > 2 THEN "delayed"
        ELSE IF progress < 50 /\ 100 * budgetSpent > 60 * budgetTotal THEN "at_risk"
        ELSE "on_track"

\* C22 (as claimed): compareProjects reports every project with the claimed status,
\* whatever risk level it reports for it.
C22_StatusIndependentOfRisk ==
    \A r \in PortfolioAnswers("comparison") :
       \A i \in 1..Len(Answer(r).projects) :
          Answer(r).projects[i].status = ClaimedStatus(Answer(r).projects[i].project_id)

\* C23 (as claimed): when all projects of the caller have stored project data, the
\* three status counters of the summary are the numbers of projects that
\* compareProjects reports as 'on_track', 'at_risk' and 'delayed'.
C23_SummaryCountsCompareStatus ==
    \A r \in PortfolioAnswers("summary") :
       LET list == ListOf(r)
           compared == compareProjects(list)
           Count(status) == Cardinality({i \in 1..Len(list) : compared[i].status = status})
       IN  (\A i \in 1..Len(list) : IsSome(projects[list[i]].project_data))
              => /\ Answer(r).projects_on_track = Count("on_track")
                 /\ Answer(r).projects_at_risk = Count("at_risk")
                 /\ Answer(r).projects_delayed = Count("delayed")

\* C24 (as claimed): the summary's total budget spent before formatting (in
\* hundredths) is the sum of the amounts the normalizer stored as
\* financials.budgetSpent in the caller's projects.
C24_BudgetSpentIsSumOfAmounts ==
    \A r \in PortfolioAnswers("summary") :
       LET list == ListOf(r)
           amount == [i \in 1..Len(list) |->
                        IF IsSome(projects[list[i]].project_data)
                        THEN Val(projects[list[i]].project_data).financials.budgetSpent
                        ELSE 0]
       IN  Answer(r).totalBudgetSpent = 100 * Sum(amount, Len(list))

(***************************************************************************)
(* The normalizer, stated against its input.                               *)
(***************************************************************************)
\* The requests whose parsed answer has been normalized, the answer and the outcome.
Normalized == {r \in Req : req[r].pc = "built"}
RawOfReq(r) == Val(req[r].prev)
Built(r) == Val(req[r].result)

\* C25 (as claimed): buildProjectData raises no error on any parsed answer, and every
\* numeric field of its result is a number: the input's number, or 0 when the input
\* field is absent or not a number.
C25_NormalizerTotal ==
    \A r \in Normalized :
       /\ Built(r).error = ""
       /\ LET data == Val(Built(r).data)
              raw == RawOfReq(r)
              Direct(out, in) == /\ out.t = "number"
                                 /\ out.n = IF in.t = "number" THEN in.n ELSE 0
          IN  /\ Direct(data.progressPercentage, raw.progressPercentage)
              /\ Direct(data.delaysFlagged, raw.delaysFlagged)
              /\ Direct(data.manpower.total, JsGet(raw.manpower, "total"))
              /\ Direct(data.manpower.safetyScore, JsGet(raw.manpower, "safetyScore"))
              /\ Direct(data.financials.budgetTotal, JsGet(raw.financials, "budgetTotal"))
              /\ Direct(data.financials.costOverrun, JsGet(raw.financials, "costOverrun"))
              /\ data.financials.budgetSpent.t = "number"
              /\ data.financials.budgetRemaining.t = "number"
              /\ data.financials.projectedFinalCost.t = "number"
              /\ data.burnRate.t = "number"

\* C26 (as claimed): when the financial input is numeric (or absent) with
\* budgetTotal >= 0, the stored budgetSpent, budgetRemaining and projectedFinalCost are
\* not negative.
C26_MonetaryFieldsNonNegative ==
    \A r \in Normalized :
       LET fin == RawOfReq(r).financials
           numeric == \A f \in {"budgetTotal", "budgetSpent", "costOverrun"} :
                         JsGet(fin, f).t \in {"number", "undefined"}
       IN  (Built(r).error = "" /\ numeric /\ JsOrZero(JsGet(fin, "budgetTotal")).n >= 0)
              => LET out == Val(Built(r).data).financials
                 IN  /\ out.budgetSpent.n >= 0
                     /\ out.budgetRemaining.n >= 0
                     /\ out.projectedFinalCost.n >= 0

(***************************************************************************)
(* The connection hook after a failed attempt.                             *)
(***************************************************************************)
\* C27: the step in which a connection attempt ends without the store being connected
\* clears connectionPromise; the marker never holds a finished attempt while the store
\* is disconnected; and a request that finds the store disconnected awaits an attempt
\* that has not finished, a new one when no attempt is pending.
C27_FailedAttemptClearsMarker ==
    [][/\ (inflight' < inflight /\ ~db') => connectionPromise' = 0
       /\ (connectionPromise' # 0 /\ connectionPromise' \in settled') => db'
       /\ \A h \in HookReq :
             (hook[h].pc = "idle" /\ hook'[h].pc = "await")
                => /\ hook'[h].awaits \notin settled'
                   /\ connectionPromise = 0
                         => (attempts' = attempts + 1 /\ hook'[h].awaits = attempts')]_vars

\* The first attempt has failed and a request that came later has started a second
\* attempt, which it awaits.
C27_Witness ==
    /\ 1 \in settled
    /\ ~db
    /\ attempts = 2
    /\ connectionPromise = 2
    /\ 2 \notin settled
    /\ \E h \in HookReq : hook[h].pc = "await" /\ hook[h].awaits = 2

(***************************************************************************)
(* Concurrent analyze requests on one project.                             *)
(***************************************************************************)
\* C28 (as claimed): whenever no analyze request on a project is in progress and no
\* store operation has failed, the project's project_data is the project_data of the
\* analysis that was appended last to its analyses list.
C28_LatestDataIsLastAppended ==
    \A p \in AllPId :
       (/\ projects[p].exists
        /\ projects[p].analyses # <<>>
        /\ faults = 0
        /\ \A r \in Req : (req[r].op = "analyze" /\ req[r].pid = p)
                             => req[r].pc \in {"idle", "done"})
          => projects[p].project_data
               = projects[p].analyses[Len(projects[p].analyses)].project_data

(***************************************************************************)
(* Accounts and notifications.                                             *)
(***************************************************************************)
\* C29 (as claimed): as long as no store operation fails, no two user documents have
\* the same lower-cased email, and a register request that has been answered with
\* the new account is the only document with its email.
C29_EmailsUnique ==
    faults = 0
       => \A i, j \in 1..Len(userEmails) :
             userEmails[i] = userEmails[j] => i = j

\* C30 (as claimed): a step changes the read flag of a notification only when it is
\* the mark-read of a request made by the notification's owner.
C30_MarkReadOwnOnly ==
    [][\A n \in DOMAIN notifications :
          notifications'[n].read # notifications[n].read
             => \E r \in Req : /\ req[r].op = "mark-read"
                               /\ req[r].pc = "markNotificationsRead"
                               /\ req'[r].pc = "done"
                               /\ notifications[n].user_id = req[r].user]_vars

====
